---- MODULE Spec2Model ----
(***************************************************************************)
(* A model of cuneiform (src/cuneiform.py), a small object-relational      *)
(* mapper, with the record types of src/models.py declared on it.          *)
(*                                                                         *)
(* Python values are written as their literals, all of them strings, so    *)
(* that values of different Python types can be compared the way Python's  *)
(* == compares them (unequal, never an error):                             *)
(*   None -> "None", 'a' -> "'a'", 1 -> "1",                               *)
(*   CompanyType.GmbH -> "CompanyType.GmbH", the object in heap slot 2 ->  *)
(*   "@2".  SQL values are "NULL", "'a'", "1".                             *)
(***************************************************************************)
EXTENDS Integers, Sequences, FiniteSets, TLC

VARIABLES
    heap,    \* the live Instances: slot -> [cls, values, dirty, initializing]
    db,      \* the database: table name -> set of rows (column -> SQL value)
    serial,  \* table name -> next value of the id column's sequence
    conn,    \* the one connection's transaction: "idle" or "aborted"
    log,     \* the statements the last operation sent to the database
    last,    \* the last operation: its name, the Instance it was called on
             \* or returned, and its outcome ("ok" or the exception raised)
    rsets,   \* the RecordSets the caller holds
    registry, \* the record types declared in this process: class -> _fields
    snapshot, \* the db_state files: table name -> the document, or none
    schema,  \* the tables of the database: table name -> its columns and
             \* foreign key constraints, or none
    ret      \* what the last len() or iteration of a RecordSet returned

vars == <<heap, db, serial, conn, log, last, rsets, ret, registry, snapshot, schema>>

----------------------------------------------------------------------------
(* Bounds *)

MaxInst == 3   \* heap slots
MaxRows == 1   \* rows ever inserted into one table
MaxSets == 2   \* RecordSets held at once
MaxDbRows == 2 \* customer rows of the databases the RecordSets are run on

----------------------------------------------------------------------------
(* Small helpers on maps (Python dicts) and sequences *)

EmptyMap == [k \in {} |-> "None"]

Put(m, k, v) == [x \in (DOMAIN m) \cup {k} |-> IF x = k THEN v ELSE m[x]]

\* dict.get(k) with the default None
DictGet(m, k) == IF k \in DOMAIN m THEN m[k] ELSE "None"

RECURSIVE Flatten(_)
Flatten(ss) == IF ss = <<>> THEN <<>> ELSE Head(ss) \o Flatten(Tail(ss))

SeqMap(Op(_), s) == [n \in 1..Len(s) |-> Op(s[n])]

Range(s) == {s[n] : n \in 1..Len(s)}

Min(a, b) == IF a < b THEN a ELSE b

\* Python truthiness of a value
Truthy(v) == v \notin {"None", "False", "0", "''"}

----------------------------------------------------------------------------
(* Values *)

Slots == 1..MaxInst
RefTable == [i \in Slots |-> "@" \o ToString(i)]
Ref(i) == RefTable[i]
Refs == {RefTable[i] : i \in Slots}
Deref(v) == CHOOSE i \in Slots : RefTable[i] = v

\* the integers of the model, as literals
MaxInt == IF MaxRows + 1 > MaxDbRows THEN MaxRows + 1 ELSE MaxDbRows
IntTable == [n \in 0..MaxInt |-> ToString(n)]
IntLit(n) == IntTable[n]
IntLits == {IntTable[n] : n \in 0..MaxInt}
IntOf(lit) == CHOOSE n \in 0..MaxInt : IntTable[n] = lit
\* the ids the caller asks get for
IdLits == {IntTable[n] : n \in 1..(MaxRows + 1)}

StrVals == {"'a'", "'b'"}
\* a str of six characters, one more than post_code's max_length
LongStr == "'abcdef'"
\* len(value) of a str: the literal without its quotes
StrLen(v) == Len(v) - 2
IntVals == IntLits

\* src/models.py, CompanyType
EnumMembers == {"CompanyType.GmbH", "CompanyType.AG", "CompanyType.KG", "CompanyType.other"}
EnumValue(m) ==
    CASE m = "CompanyType.GmbH" -> "1"
      [] m = "CompanyType.AG" -> "2"
      [] m = "CompanyType.KG" -> "3"
      [] m = "CompanyType.other" -> "4"

----------------------------------------------------------------------------
(* Record types: Model.__init_subclass__ on the declarations of models.py *)

Field(name, type, options) == [name |-> name, type |-> type, options |-> options]

Classes == {"Town", "Address", "Customer"}
DeclOrder == <<"Town", "Address", "Customer">>

\* the Field attributes of each class body, in the order of vars(subclass)
Declared(cls) ==
    CASE cls = "Town" ->
            << Field("name", "str", EmptyMap) >>
      [] cls = "Address" ->
            << Field("street", "str", EmptyMap),
               Field("house_number", "int", EmptyMap),
               Field("post_code", "str", [min_length |-> "5", max_length |-> "5"]),
               Field("town", "Town", EmptyMap) >>
      [] cls = "Customer" ->
            << Field("name", "str", EmptyMap),
               Field("type", "CompanyType", [default |-> "None"]),
               Field("addr", "Address", [default |-> "None"]) >>

\* subclass.__name__.lower()
_table_name(cls) ==
    CASE cls = "Town" -> "town"
      [] cls = "Address" -> "address"
      [] cls = "Customer" -> "customer"
      [] cls = "Capital" -> "capital"

Tables == {_table_name(c) : c \in Classes}
ClassOfTable(t) == CHOOSE c \in Classes : _table_name(c) = t

\* name[-1] and name[:-1] of the table names
LastChar(name) ==
    CASE name = "town" -> "n"
      [] name = "address" -> "s"
      [] name = "customer" -> "r"
      [] name = "capital" -> "l"
AllButLast(name) ==
    CASE name = "town" -> "tow"
      [] name = "address" -> "addres"
      [] name = "customer" -> "custome"
      [] name = "capital" -> "capita"

plural(name) ==
    IF LastChar(name) = "s" THEN name \o "es"
    ELSE IF LastChar(name) = "y" THEN AllButLast(name) \o "ies"
    ELSE name \o "s"

\* a record type a program may declare on top of models.py, as a subclass
\* of one of its classes: class Capital(Town)
Subclasses == {"Capital"}
Base(cls) == IF cls = "Capital" THEN "Town" ELSE "Model"
issubclass(cls, type) == cls = type \/ (cls \in Subclasses /\ Base(cls) = type)

IsModel(type) == type \in Classes \cup Subclasses
IsEnum(type) == type = "CompanyType"

\* the virtual field install_inverse puts on the referenced class
InverseField(other_model, field) ==
    Field(IF "inverse" \in DOMAIN field.options
             THEN field.options["inverse"]
             ELSE plural(_table_name(other_model)),
          other_model,
          [virtual |-> "True", forward_name |-> field.name])

\* the inverse fields the declaration of `other` installs on cls
InversesFrom(other, cls) ==
    SeqMap(LAMBDA f : InverseField(other, f),
           SelectSeq(Declared(other), LAMBDA f : f.type = cls))

\* cls._fields once every class of DeclOrder is declared: the declared
\* fields, then id, then the inverse fields in the order they were installed
FieldsAfterDeclaring(cls) ==
    Declared(cls)
    \o << Field("id", "int", [required |-> "True"]) >>
    \o Flatten([n \in 1..Len(DeclOrder) |-> InversesFrom(DeclOrder[n], cls)])

FieldTable == [cls \in Classes |-> FieldsAfterDeclaring(cls)]
_fields(cls) == FieldTable[cls]

NameTable == [cls \in Classes |-> SeqMap(LAMBDA f : f.name, FieldTable[cls])]
FieldNames(cls) == NameTable[cls]
FieldOf(cls, name) == CHOOSE f \in Range(_fields(cls)) : f.name = name
IsVirtual(f) == Truthy(DictGet(f.options, "virtual"))

\* the non-virtual fields, in _fields order: the columns of the table
ColumnTable == [cls \in Classes |-> SelectSeq(FieldTable[cls], LAMBDA f : ~IsVirtual(f))]
Columns(cls) == ColumnTable[cls]
ColumnNameTable == [cls \in Classes |-> SeqMap(LAMBDA f : f.name, ColumnTable[cls])]
ColumnNames(cls) == ColumnNameTable[cls]

----------------------------------------------------------------------------
(* Declaring record types one by one: Model.__init_subclass__, with the    *)
(* class bodies a developer may write for the three classes over time      *)

\* the class bodies: those of models.py, and edits of them
Bodies(cls) ==
    CASE cls = "Town" ->
            { Declared("Town"),
              << Field("name", "str", [max_length |-> "5"]) >> }
      [] cls = "Address" ->
            { Declared("Address"),
              << Field("street", "str", EmptyMap) >>,
              << Field("street", "str", EmptyMap),
                 Field("house_number", "int", EmptyMap),
                 Field("post_code", "str", [min_length |-> "5", max_length |-> "5"]),
                 Field("town", "Town", [inverse |-> "id"]) >> }
      [] cls = "Customer" ->
            { Declared("Customer"),
              << Field("name", "str", EmptyMap),
                 Field("type", "CompanyType", [default |-> "CompanyType.GmbH"]) >>,
              << Field("name", "str", EmptyMap),
                 Field("id", "int", EmptyMap) >> }

\* fields[name] = field of a dict kept as a sequence: an existing key keeps
\* its place
DictSet(fields, f) ==
    IF \E n \in 1..Len(fields) : fields[n].name = f.name
    THEN [n \in 1..Len(fields) |-> IF fields[n].name = f.name THEN f ELSE fields[n]]
    ELSE Append(fields, f)

\* Model.install_inverse(other_model, field_name, field), called on cls
install_inverse(reg, cls, other_model, field) ==
    [reg EXCEPT ![cls] = DictSet(@, InverseField(other_model, field))]

RECURSIVE CollectFields(_, _, _, _)
\* the for loop of __init_subclass__ over vars(subclass)
CollectFields(reg, subclass, body, fields) ==
    IF body = <<>> THEN [reg |-> reg, fields |-> fields, err |-> "ok"]
    ELSE IF Head(body).name = "id" THEN [reg |-> reg, fields |-> fields, err |-> "RuntimeError"]
    ELSE CollectFields(IF IsModel(Head(body).type)
                       THEN install_inverse(reg, Head(body).type, subclass, Head(body))
                       ELSE reg,
                       subclass, Tail(body), Append(fields, Head(body)))

\* subclass._fields = fields, with the id field set last
Registered(c, subclass) ==
    IF c.err # "ok" THEN [reg |-> c.reg, err |-> c.err]
    ELSE [reg |-> [c.reg EXCEPT ![subclass] =
                      DictSet(c.fields, Field("id", "int", [required |-> "True"]))],
          err |-> "ok"]

\* Model.__init_subclass__ up to the call of ensure_db_state
Collected(reg, subclass, body) == Registered(CollectFields(reg, subclass, body, <<>>), subclass)

\* no class is declared
NoClass == [cls \in Classes |-> <<>>]

RECURSIVE DeclareAll(_, _)
\* the registry after declaring the classes of the sequence with the bodies
\* of models.py
DeclareAll(reg, classes) ==
    IF classes = <<>> THEN reg
    ELSE DeclareAll(Collected(reg, Head(classes), Declared(Head(classes))).reg, Tail(classes))

\* Field.__set_name__: the column type
_sql_type(f) ==
    IF f.name = "id" THEN "serial primary key"
    ELSE IF f.type = "int" THEN "int"
    ELSE IF f.type = "str"
    THEN "varchar(" \o (IF "max_length" \in DOMAIN f.options THEN f.options["max_length"]
                        ELSE "255") \o ")"
    ELSE IF IsModel(f.type) THEN "int"
    ELSE IF IsEnum(f.type) THEN "int"
    ELSE "RuntimeError"

\* a get_state that does not leave the virtual fields out
StateFieldsWithVirtual(fields) == fields

\* the non-virtual fields of a class's _fields, in their order
StateFields(fields) == SelectSeq(fields, LAMBDA f : ~IsVirtual(f))
\* those of them that refer to a Model
StateKeys(fields) == SelectSeq(fields, LAMBDA f : IsModel(f.type) /\ ~IsVirtual(f))

\* Model.get_state(): two dicts, compared without regard to order
get_state(fields) ==
    [fields |-> [name \in {f.name : f \in Range(StateFields(fields))} |->
                    [type |-> _sql_type(CHOOSE f \in Range(fields) : f.name = name),
                     options |-> (CHOOSE f \in Range(fields) : f.name = name).options]],
     foreign_keys |-> [name \in {f.name : f \in Range(StateKeys(fields))} |->
                          _table_name((CHOOSE f \in Range(fields) : f.name = name).type)]]

\* json: None, True and False have their JSON names, a number or a string
\* is written as it is, an Enum member or an Instance is not serializable
Serializable(v) == v \notin EnumMembers \cup Refs
ToJson(v) ==
    CASE v = "None" -> "null"
      [] v = "True" -> "true"
      [] v = "False" -> "false"
      [] OTHER -> v
FromJson(j) ==
    CASE j = "null" -> "None"
      [] j = "true" -> "True"
      [] j = "false" -> "False"
      [] OTHER -> j

\* an option map written to and read from a document
OptionsToJson(options) == [k \in DOMAIN options |-> ToJson(options[k])]
OptionsFromJson(options) == [k \in DOMAIN options |-> FromJson(options[k])]

\* json.dump(new_state, f) raises TypeError on a value it cannot serialize,
\* and then leaves a file that is no document
Dumpable(state) ==
    \A name \in DOMAIN state.fields :
        \A k \in DOMAIN state.fields[name].options :
            Serializable(state.fields[name].options[k])
JsonDump(state) ==
    IF ~Dumpable(state) THEN [file |-> "corrupt"]
    ELSE [fields |-> [name \in DOMAIN state.fields |->
                         [type |-> state.fields[name].type,
                          options |-> OptionsToJson(state.fields[name].options)]],
          foreign_keys |-> state.foreign_keys]

\* a json.load that hands out the JSON names as they are written
JsonLoadKeepsNames(doc) == doc

\* json.load(f) of a document
JsonLoad(doc) ==
    [fields |-> [name \in DOMAIN doc.fields |->
                    [type |-> doc.fields[name].type,
                     options |-> OptionsFromJson(doc.fields[name].options)]],
     foreign_keys |-> doc.foreign_keys]

----------------------------------------------------------------------------
(* Instances *)

Free == [cls |-> "free", values |-> EmptyMap, dirty |-> FALSE, initializing |-> FALSE]

Live(h) == {i \in Slots : h[i].cls # "free"}

\* isinstance(value, type)
IsInstance(h, value, type) ==
    CASE type = "str" -> value \in StrVals \cup {LongStr}
      [] type = "int" -> value \in IntVals
      [] IsEnum(type) -> value \in EnumMembers
      [] IsModel(type) -> value \in Refs /\ issubclass(h[Deref(value)].cls, type)
      [] OTHER -> FALSE

\* Field.__set__ on a non-conforming value: the assert; None is no instance
\* of any field type
SetRaises(h, inst, f, value) ==
    /\ value # DictGet(inst.values, f.name)
    /\ ~IsInstance(h, value, f.type)

\* Field.__set__ without its equality test: every assignment stores and marks
SetWithoutEqualityTest(h, inst, f, value) ==
    LET stored == [inst EXCEPT !.values = Put(@, f.name, value)]
    IN  IF Truthy(DictGet(stored.values, "id")) /\ stored.initializing
        THEN stored
        ELSE [stored EXCEPT !.dirty = TRUE]

\* Field.__set__(instance, value), when it does not raise
__set__(h, inst, f, value) ==
    IF value = DictGet(inst.values, f.name)
    THEN inst
    ELSE LET stored == [inst EXCEPT !.values = Put(@, f.name, value)]
         IN  IF Truthy(DictGet(stored.values, "id"))
             THEN IF stored.initializing
                  THEN stored
                  ELSE [stored EXCEPT !.dirty = TRUE]
             ELSE [stored EXCEPT !.dirty = TRUE]

\* the setattr loop of Model.__init__ over kwargs, a sequence of <<k, v>>;
\* yields the instance, or the error that ends the construction
RECURSIVE InitLoop(_, _, _)
InitLoop(h, inst, kwargs) ==
    IF kwargs = <<>> THEN [inst |-> inst, err |-> "ok"]
    ELSE LET k == Head(kwargs)[1]
             v == Head(kwargs)[2]
         IN  IF k \notin Range(FieldNames(inst.cls))
             THEN [inst |-> inst, err |-> "AssertionError"]
             ELSE IF SetRaises(h, inst, FieldOf(inst.cls, k), v)
             THEN [inst |-> inst, err |-> "AssertionError"]
             ELSE InitLoop(h, __set__(h, inst, FieldOf(inst.cls, k), v), Tail(kwargs))

\* the required-field loop of Model.__init__
RequiredMissing(cls, kwargs) ==
    \E f \in Range(_fields(cls)) :
        /\ Truthy(DictGet(f.options, "required"))
        /\ f.name # "id"
        /\ ~IsVirtual(f)
        /\ f.name \notin {kv[1] : kv \in Range(kwargs)}

\* Model.__init__(kwargs)
__init__(h, cls, kwargs) ==
    LET start == [cls |-> cls, values |-> EmptyMap, dirty |-> FALSE, initializing |-> TRUE]
        looped == InitLoop(h, start, kwargs)
    IN  IF looped.err # "ok" THEN looped
        ELSE IF RequiredMissing(cls, kwargs)
        THEN [inst |-> looped.inst, err |-> "AssertionError"]
        ELSE [inst |-> [looped.inst EXCEPT !.initializing = FALSE], err |-> "ok"]

----------------------------------------------------------------------------
(* The database, as the statements of cuneiform.py use it.  A state        *)
(* st = [heap, db, serial, log, err] is threaded through every call; err   *)
(* is "ok" or the exception that is propagating.                           *)

Raise(st, e) == [st EXCEPT !.err = e]

\* an error the database reports: the statement's transaction is left
\* aborted, and no caller in the program rolls it back
Fail(st, e) == [st EXCEPT !.err = e, !.conn = "aborted"]
InFailedTransaction(st) == st.conn = "aborted"

\* one statement sent with cur.execute; refs records, for an INSERT or UPDATE
\* of an Instance, the id and dirty flag each Instance it references had at
\* that moment
Stmt(op, table, columns, params, refs) ==
    [op |-> op, table |-> table, columns |-> columns, params |-> params, refs |-> refs]

\* the foreign keys of a table: Model.get_state()["foreign_keys"], for which
\* Model.create adds the constraint fk_<name> ... REFERENCES <table>(id)
ForeignKeyTable ==
    [cls \in Classes |-> SelectSeq(FieldTable[cls], LAMBDA f : IsModel(f.type) /\ ~IsVirtual(f))]
foreign_keys(cls) == ForeignKeyTable[cls]

FkViolated(d, cls, columns, params) ==
    \E n \in 1..Len(columns) :
        \E f \in Range(foreign_keys(cls)) :
            /\ f.name = columns[n]
            /\ params[n] # "NULL"
            /\ \A r \in d[_table_name(f.type)] : r["id"] # params[n]

\* the n of the column type varchar(n) that Field.__set_name__ gives a str
\* field: its max_length option, 255 without one
VarcharLength(f) ==
    IF "max_length" \in DOMAIN f.options /\ f.options["max_length"] = "5" THEN 5 ELSE 255

\* a str parameter longer than its varchar(n) column: the database refuses
\* the statement (value too long for type character varying)
TooLong(cls, columns, params) ==
    \E n \in 1..Len(columns) :
        \E f \in Range(Columns(cls)) :
            /\ f.name = columns[n]
            /\ f.type = "str"
            /\ params[n] # "NULL"
            /\ StrLen(params[n]) > VarcharLength(f)

\* INSERT INTO table (columns) VALUES (params) RETURNING id
ExecInsert(st, cls, columns, params, refs) ==
    LET t == _table_name(cls)
        id == IntLit(st.serial[t])
        row == [c \in Range(ColumnNames(cls)) |->
                   IF c = "id" THEN id
                   ELSE IF \E n \in 1..Len(columns) : columns[n] = c
                        THEN params[CHOOSE n \in 1..Len(columns) : columns[n] = c]
                        ELSE "NULL"]
        sent == [st EXCEPT !.log = Append(@, Stmt("INSERT", t, columns, params, refs)),
                           !.serial[t] = @ + 1]
    IN  IF InFailedTransaction(st)
        THEN [st |-> Fail(sent, "InFailedSqlTransaction"), id |-> "None"]
        ELSE IF TooLong(cls, columns, params)
        THEN [st |-> Fail(sent, "DataError"), id |-> "None"]
        ELSE IF FkViolated(st.db, cls, columns, params)
        THEN [st |-> Fail(sent, "IntegrityError"), id |-> "None"]
        ELSE [st |-> [sent EXCEPT !.db[t] = @ \cup {row}], id |-> id]

\* UPDATE table SET columns=params WHERE id = id; an empty SET list is no
\* SQL statement
ExecUpdate(st, cls, columns, params, id, refs) ==
    LET t == _table_name(cls)
        sent == [st EXCEPT !.log = Append(@, Stmt("UPDATE", t, columns, params, refs))]
        upd(r) == [c \in DOMAIN r |->
                      IF \E n \in 1..Len(columns) : columns[n] = c
                      THEN params[CHOOSE n \in 1..Len(columns) : columns[n] = c]
                      ELSE r[c]]
    IN  IF InFailedTransaction(st) THEN Fail(sent, "InFailedSqlTransaction")
        ELSE IF columns = <<>> THEN Fail(sent, "SyntaxError")
        ELSE IF TooLong(cls, columns, params) THEN Fail(sent, "DataError")
        ELSE IF FkViolated(st.db, cls, columns, params) /\ \E r \in st.db[t] : r["id"] = id
        THEN Fail(sent, "IntegrityError")
        ELSE [sent EXCEPT !.db[t] = {IF r["id"] = id THEN upd(r) ELSE r : r \in @}]

----------------------------------------------------------------------------
(* Model.save and Field.to_sql, which call each other *)

RefSnapshot(h, inst) ==
    LET fs == {f \in Range(foreign_keys(inst.cls)) :
                  f.name \in DOMAIN inst.values /\ inst.values[f.name] \in Refs}
    IN  [name \in {f.name : f \in fs} |->
            LET o == h[Deref(inst.values[name])]
            IN  [id |-> DictGet(o.values, "id"), dirty |-> o.dirty]]

\* a Python value as a statement parameter
Param(v) == IF v = "None" THEN "NULL" ELSE v

RECURSIVE save(_, _)
RECURSIVE to_sql(_, _, _)
RECURSIVE InsertLoop(_, _, _, _, _)
RECURSIVE UpdateParams(_, _, _, _)

\* Field.to_sql(value): the parameter, after saving a referenced Instance
to_sql(st, f, value) ==
    IF value = "None" THEN [st |-> st, val |-> "NULL"]
    ELSE IF f.type = "str" THEN [st |-> st, val |-> value]
    ELSE IF IsEnum(f.type) THEN [st |-> st, val |-> EnumValue(value)]
    ELSE IF IsModel(f.type)
    THEN IF ~IsInstance(st.heap, value, f.type)
         THEN [st |-> Raise(st, "AssertionError"), val |-> "NULL"]
         ELSE LET saved == save(st, Deref(value))
              IN  [st |-> saved,
                   val |-> Param(DictGet(saved.heap[Deref(value)].values, "id"))]
    ELSE IF f.type = "int" THEN [st |-> st, val |-> value]
    ELSE [st |-> Raise(st, "TypeError"), val |-> "NULL"]

\* the for loop of the INSERT branch over the remaining fields
InsertLoop(st, i, fields, columns, values) ==
    IF fields = <<>> \/ st.err # "ok"
    THEN [st |-> st, columns |-> columns, values |-> values]
    ELSE LET v == Head(fields)
             k == v.name
             self == st.heap[i]
         IN  IF k = "id" \/ IsVirtual(v)
             THEN InsertLoop(st, i, Tail(fields), columns, values)
             ELSE IF k \in DOMAIN self.values
             THEN LET r == to_sql(st, v, self.values[k])
                  IN  InsertLoop(r.st, i, Tail(fields), Append(columns, k),
                                 IF r.st.err = "ok" THEN Append(values, r.val) ELSE values)
             ELSE IF "default" \in DOMAIN v.options
             THEN LET r == to_sql(st, v, v.options["default"])
                  IN  InsertLoop(r.st, i, Tail(fields), Append(columns, k),
                                 IF r.st.err = "ok" THEN Append(values, r.val) ELSE values)
             ELSE [st |-> Raise(st, "ValueError"),
                   columns |-> Append(columns, k), values |-> values]

\* the keys the comprehension of the UPDATE branch lets through its first
\* two conditions
UpdateKeys(self) ==
    SelectSeq(FieldNames(self.cls), LAMBDA key : key # "id" /\ key \in DOMAIN self.values)

\* the third condition, self._fields[key]._options("virtual"): _options is a
\* dict, and calling it raises TypeError
OptionsCallRaises(self) == UpdateKeys(self) # <<>>

\* the parameter generator of the UPDATE branch
UpdateParams(st, i, fields, params) ==
    IF fields = <<>> \/ st.err # "ok" THEN [st |-> st, params |-> params]
    ELSE LET v == Head(fields)
             self == st.heap[i]
         IN  IF v.name # "id" /\ v.name \in DOMAIN self.values /\ ~IsVirtual(v)
             THEN LET r == to_sql(st, v, self.values[v.name])
                  IN  UpdateParams(r.st, i, Tail(fields),
                                   IF r.st.err = "ok" THEN Append(params, r.val) ELSE params)
             ELSE UpdateParams(st, i, Tail(fields), params)

\* the branch of save for an Instance with an identity
SaveUpdate(st, i) ==
    LET self == st.heap[i]
    IN  IF OptionsCallRaises(self) THEN Raise(st, "TypeError")
        ELSE LET assignments == UpdateKeys(self)
                 p == UpdateParams(st, i, _fields(self.cls), <<>>)
             IN  IF p.st.err # "ok" THEN p.st
                 ELSE LET done == ExecUpdate(p.st, self.cls, assignments, p.params,
                                             self.values["id"],
                                             RefSnapshot(p.st.heap, p.st.heap[i]))
                      IN  IF done.err # "ok" THEN done
                          ELSE [done EXCEPT !.heap[i].dirty = FALSE]

\* the INSERT branch without self._values["id"] = cur.fetchone()[0]
SaveInsertDropsId(st, i) ==
    LET l == InsertLoop(st, i, _fields(st.heap[i].cls), <<>>, <<>>)
    IN  IF l.st.err # "ok" THEN l.st
        ELSE LET done == ExecInsert(l.st, l.st.heap[i].cls, l.columns, l.values,
                                    RefSnapshot(l.st.heap, l.st.heap[i]))
             IN  IF done.st.err # "ok" THEN done.st
                 ELSE [done.st EXCEPT !.heap[i].dirty = FALSE]

\* an INSERT branch that ends with self._dirty = False on every path, as in
\* a finally clause
SaveInsertAlwaysClean(st, i) ==
    LET l == InsertLoop(st, i, _fields(st.heap[i].cls), <<>>, <<>>)
    IN  IF l.st.err # "ok" THEN [l.st EXCEPT !.heap[i].dirty = FALSE]
        ELSE LET done == ExecInsert(l.st, l.st.heap[i].cls, l.columns, l.values,
                                    RefSnapshot(l.st.heap, l.st.heap[i]))
             IN  IF done.st.err # "ok" THEN [done.st EXCEPT !.heap[i].dirty = FALSE]
                 ELSE [done.st EXCEPT !.heap[i].values = Put(@, "id", done.id),
                                      !.heap[i].dirty = FALSE]

\* the branch of save for an Instance without identity
SaveInsert(st, i) ==
    LET l == InsertLoop(st, i, _fields(st.heap[i].cls), <<>>, <<>>)
    IN  IF l.st.err # "ok" THEN l.st
        ELSE LET done == ExecInsert(l.st, l.st.heap[i].cls, l.columns, l.values,
                                    RefSnapshot(l.st.heap, l.st.heap[i]))
             IN  IF done.st.err # "ok" THEN done.st
                 ELSE [done.st EXCEPT !.heap[i].values = Put(@, "id", done.id),
                                      !.heap[i].dirty = FALSE]

\* save without its first test, if not self._dirty: return
saveIgnoresDirty(st, i) ==
    IF Truthy(DictGet(st.heap[i].values, "id")) THEN SaveUpdate(st, i)
    ELSE SaveInsert(st, i)

\* Model.save(self)
save(st, i) ==
    IF ~st.heap[i].dirty THEN st
    ELSE IF Truthy(DictGet(st.heap[i].values, "id")) THEN SaveUpdate(st, i)
    ELSE SaveInsert(st, i)

----------------------------------------------------------------------------
(* Model.get and Field.from_sql, which call each other *)

\* Heap slots are handed out by class: slot s holds Instances of ClassOfSlot(s)
ClassOfSlot(s) == DeclOrder[((s - 1) % Len(DeclOrder)) + 1]
FreeSlots(h, cls) == {i \in Slots \ Live(h) : ClassOfSlot(i) = cls}
HasFree(h, cls) == FreeSlots(h, cls) # {}
LowestFree(h, cls) == CHOOSE i \in FreeSlots(h, cls) : \A j \in FreeSlots(h, cls) : i <= j

\* the Enum constructor, CompanyType(sql)
EnumByValue(sql) == {m \in EnumMembers : EnumValue(m) = sql}

\* get without its last assignment, instance._dirty = False
HydrateKeepsDirty(h, cls, kwargs) == __init__(h, cls, kwargs)

\* cls(kwargs) on values read from storage, then instance._dirty = False
Hydrate(h, cls, kwargs) ==
    LET made == __init__(h, cls, kwargs)
    IN  [made EXCEPT !.inst.dirty = FALSE]

RECURSIVE get(_, _, _)
RECURSIVE from_sql(_, _, _)
RECURSIVE FromSqlLoop(_, _, _, _)

\* a from_sql that hands out what the database returned
from_sqlUnconverted(st, f, sql) == [st |-> st, val |-> sql]

\* Field.from_sql(sql)
from_sql(st, f, sql) ==
    IF sql = "NULL" THEN [st |-> st, val |-> "None"]
    ELSE IF f.type \in {"str", "int"} THEN [st |-> st, val |-> sql]
    ELSE IF IsModel(f.type) THEN get(st, f.type, sql)
    ELSE IF IsEnum(f.type)
    THEN IF EnumByValue(sql) = {}
         THEN [st |-> Raise(st, "ValueError"), val |-> "None"]
         ELSE [st |-> st, val |-> CHOOSE m \in EnumByValue(sql) : TRUE]
    ELSE [st |-> Raise(st, "TypeError"), val |-> "None"]

\* the dict comprehension of get: {column: from_sql(value)} in column order
FromSqlLoop(st, columns, row, kwargs) ==
    IF columns = <<>> \/ st.err # "ok" THEN [st |-> st, kwargs |-> kwargs]
    ELSE LET r == from_sql(st, Head(columns), row[Head(columns).name])
         IN  FromSqlLoop(r.st, Tail(columns), row, Append(kwargs, <<Head(columns).name, r.val>>))

\* Model.get(id): the new Instance's reference.  "NoSlot" is the heap bound
\* of the model, no error of the program.
get(st, cls, id) ==
    LET t == _table_name(cls)
        sent == [st EXCEPT !.log = Append(@, Stmt("SELECT", t, ColumnNames(cls), <<id>>, EmptyMap))]
        found == {r \in st.db[t] : r["id"] = id}
    IN  IF InFailedTransaction(st)
        THEN [st |-> Fail(sent, "InFailedSqlTransaction"), val |-> "None"]
        ELSE IF found = {} THEN [st |-> Raise(sent, "TypeError"), val |-> "None"]
        ELSE LET l == FromSqlLoop(sent, Columns(cls), CHOOSE r \in found : TRUE, <<>>)
             IN  IF l.st.err # "ok" THEN [st |-> l.st, val |-> "None"]
                 ELSE IF ~HasFree(l.st.heap, cls) THEN [st |-> Raise(l.st, "NoSlot"), val |-> "None"]
                 ELSE LET made == Hydrate(l.st.heap, cls, l.kwargs)
                          slot == LowestFree(l.st.heap, cls)
                      IN  IF made.err # "ok" THEN [st |-> Raise(l.st, made.err), val |-> "None"]
                          ELSE [st |-> [l.st EXCEPT !.heap[slot] = made.inst],
                                val |-> Ref(slot)]

----------------------------------------------------------------------------
(* Schema synchronisation: Model.ensure_db_state, drop, create, migrate.   *)
(* These work on w = [registry, snapshot, schema, db, serial, conn, log,   *)
(* err].  A table of the database is its columns (name and type, in        *)
(* order) and its foreign key constraints.                                 *)

Column(name, type) == [name |-> name, type |-> type]
Constraint(column, target) == [column |-> column, target |-> target]
Table(columns, fks) == [columns |-> columns, fks |-> fks]
\* no such table
NoTable == [table |-> "absent"]
\* no db_state file of that name, and a file json.load cannot read
NoFile == [file |-> "absent"]
Corrupt == [file |-> "corrupt"]

\* the statement added to the log
Logged(w, stmt) == [w EXCEPT !.log = Append(@, stmt)]

\* DROP TABLE IF EXISTS table CASCADE: the table goes with its rows and with
\* the foreign key constraints of other tables that refer to it
ExecDropTable(w, table) ==
    IF InFailedTransaction(w) THEN Fail(w, "InFailedSqlTransaction")
    ELSE [w EXCEPT !.schema = [t \in DOMAIN @ |->
                                  IF t = table \/ @[t] = NoTable THEN NoTable
                                  ELSE [@[t] EXCEPT !.fks = {c \in @ : c.target # table}]],
                   !.db[table] = {},
                   !.serial[table] = 1]

\* Model.drop()
drop(w, cls) ==
    ExecDropTable(Logged(w, [op |-> "DROP TABLE", table |-> _table_name(cls)]),
                  _table_name(cls))

\* the instructions of DDL: each gives the schema and rows after it, or an
\* error of the database
HasColumn(w, table, column) ==
    /\ w.schema[table] # NoTable
    /\ \E n \in 1..Len(w.schema[table].columns) : w.schema[table].columns[n].name = column

CreateTable(w, table, columns) ==
    IF w.schema[table] # NoTable THEN w
    ELSE [w EXCEPT !.schema[table] = Table(columns, {})]

AddConstraint(w, table, column, target) ==
    IF ~HasColumn(w, table, column) \/ ~HasColumn(w, target, "id")
    THEN Raise(w, "ProgrammingError")
    ELSE IF \E r \in w.db[table] :
                r[column] # "NULL" /\ \A x \in w.db[target] : x["id"] # r[column]
    THEN Raise(w, "IntegrityError")
    ELSE [w EXCEPT !.schema[table].fks =
                      {c \in @ : c.column # column} \cup {Constraint(column, target)}]

DropColumn(w, table, column) ==
    IF ~HasColumn(w, table, column) THEN Raise(w, "ProgrammingError")
    ELSE IF \E t \in DOMAIN w.schema :
                /\ w.schema[t] # NoTable
                /\ column = "id"
                /\ \E c \in w.schema[t].fks : c.target = table
    THEN Raise(w, "InternalError")
    ELSE [w EXCEPT !.schema[table] =
                      Table(SelectSeq(@.columns, LAMBDA c : c.name # column),
                            {c \in @.fks : c.column # column}),
                   !.db[table] = {[k \in (DOMAIN r) \ {column} |-> r[k]] : r \in @}]

AddColumn(w, table, column, type) ==
    IF w.schema[table] = NoTable \/ HasColumn(w, table, column)
    THEN Raise(w, "ProgrammingError")
    ELSE [w EXCEPT !.schema[table].columns = Append(@, Column(column, type)),
                   !.db[table] = {[k \in (DOMAIN r) \cup {column} |->
                                      IF k = column THEN "NULL" ELSE r[k]] : r \in @}]

Instruction(w, i) ==
    CASE i.op = "CREATE TABLE" -> CreateTable(w, i.table, i.columns)
      [] i.op = "ADD CONSTRAINT" -> AddConstraint(w, i.table, i.column, i.target)
      [] i.op = "DROP COLUMN" -> DropColumn(w, i.table, i.column)
      [] i.op = "ADD COLUMN" -> AddColumn(w, i.table, i.column, i.type)

RECURSIVE Instructions(_, _)
\* the instructions one after the other, up to the first error
Instructions(w, is) ==
    IF is = <<>> \/ w.err # "ok" THEN w
    ELSE Instructions(Instruction(w, Head(is)), Tail(is))

\* conn.commit() after the statements of one transaction: all of them take
\* effect, or after an error none does and the transaction stays aborted
Committed(w, done) ==
    IF done.err # "ok" THEN Fail(w, done.err) ELSE done

\* cur.execute of each statement of the sequence, then conn.commit()
ExecDDL(w, is) ==
    IF InFailedTransaction(w) THEN Fail(Logged(w, is), "InFailedSqlTransaction")
    ELSE Committed(Logged(w, is), Instructions(Logged(w, is), is))

\* the statements of Model.create: CREATE TABLE IF NOT EXISTS, then one ALTER
\* TABLE ... ADD CONSTRAINT per foreign key
CreateStatements(cls, fields) ==
    << [op |-> "CREATE TABLE", table |-> _table_name(cls),
        columns |-> SeqMap(LAMBDA f : Column(f.name, _sql_type(f)), StateFields(fields))] >>
    \o SeqMap(LAMBDA f : [op |-> "ADD CONSTRAINT", table |-> _table_name(cls),
                          column |-> f.name, target |-> _table_name(f.type)],
              StateKeys(fields))

\* Model.create()
create(w, cls) == ExecDDL(w, CreateStatements(cls, w.registry[cls]))

\* the names the loop of migrate has something to do for
Changed(old_state, new_state) ==
    ((DOMAIN old_state.fields) \ (DOMAIN new_state.fields))
    \cup ((DOMAIN new_state.fields) \ (DOMAIN old_state.fields))

RECURSIVE Orderings(_)
\* the orders in which the loop of migrate may meet the names of a set
Orderings(S) ==
    IF S = {} THEN {<<>>}
    ELSE UNION {{<<x>> \o p : p \in Orderings(S \ {x})} : x \in S}

\* one round of the loop of migrate
FieldInstructions(table, field, old_state, new_state) ==
    (IF field \notin DOMAIN new_state.fields
     THEN << [op |-> "DROP COLUMN", table |-> table, column |-> field] >>
     ELSE <<>>)
    \o (IF field \notin DOMAIN old_state.fields
        THEN << [op |-> "ADD COLUMN", table |-> table, column |-> field,
                 type |-> new_state.fields[field].type] >>
             \o (IF field \in DOMAIN new_state.foreign_keys
                 THEN << [op |-> "ADD CONSTRAINT", table |-> table, column |-> field,
                          target |-> new_state.foreign_keys[field]] >>
                 ELSE <<>>)
        ELSE <<>>)

\* the instructions of migrate, the loop meeting the changed names in the
\* order given
MigrateInstructions(table, order, old_state, new_state) ==
    Flatten(SeqMap(LAMBDA field : FieldInstructions(table, field, old_state, new_state), order))

\* cur.execute of the joined instructions: the driver refuses an empty query
ExecBatch(w, is) ==
    IF InFailedTransaction(w) THEN Fail(Logged(w, is), "InFailedSqlTransaction")
    ELSE IF is = <<>> THEN Raise(Logged(w, is), "ProgrammingError")
    ELSE Committed(Logged(w, is), Instructions(Logged(w, is), is))

\* Model.migrate(old_state, new_state)
migrate(w, cls, old_state, new_state, order) ==
    ExecBatch(w, MigrateInstructions(_table_name(cls), order, old_state, new_state))

\* a json.dump that is reached whether or not the statements went through
WriteStateAlways(w, table, new_state) ==
    IF ~Dumpable(new_state)
    THEN Raise([w EXCEPT !.snapshot[table] = Corrupt], "TypeError")
    ELSE [w EXCEPT !.snapshot[table] = JsonDump(new_state)]

\* the end of ensure_db_state: json.dump(new_state, f)
WriteState(w, table, new_state) ==
    IF w.err # "ok" THEN w
    ELSE IF ~Dumpable(new_state)
    THEN Raise([w EXCEPT !.snapshot[table] = Corrupt], "TypeError")
    ELSE [w EXCEPT !.snapshot[table] = JsonDump(new_state)]

\* drop() and then create()
Recreated(w, cls) == IF w.err # "ok" THEN w ELSE create(w, cls)

\* ensure_db_state with the derived state at hand
Synchronized(w, cls, new_state, order) ==
    IF w.snapshot[_table_name(cls)] = NoFile
    THEN WriteState(Recreated(drop(w, cls), cls), _table_name(cls), new_state)
    ELSE IF w.snapshot[_table_name(cls)] = Corrupt
    THEN Raise(w, "JSONDecodeError")
    ELSE IF JsonLoad(w.snapshot[_table_name(cls)]) = new_state
    THEN w
    ELSE WriteState(migrate(w, cls, JsonLoad(w.snapshot[_table_name(cls)]), new_state, order),
                    _table_name(cls), new_state)

\* Model.ensure_db_state()
ensure_db_state(w, cls, order) == Synchronized(w, cls, get_state(w.registry[cls]), order)

\* Model.__init_subclass__ with what the for loop left
Subclassed(w, c, subclass, order) ==
    IF c.err # "ok" THEN [w EXCEPT !.registry = c.reg, !.err = c.err]
    ELSE ensure_db_state([w EXCEPT !.registry = c.reg], subclass, order)

\* Model.__init_subclass__ for a class statement with the given body
__init_subclass__(w, subclass, body, order) ==
    Subclassed(w, Collected(w.registry, subclass, body), subclass, order)

\* the names migrate would loop over were the class declared with the body
ChangedBy(w, subclass, body) ==
    IF w.snapshot[_table_name(subclass)] \in {NoFile, Corrupt} THEN {}
    ELSE Changed(JsonLoad(w.snapshot[_table_name(subclass)]),
                 get_state(Collected(w.registry, subclass, body).reg[subclass]))

----------------------------------------------------------------------------
(* The caller: what it constructs, assigns, saves and loads *)

\* the values the caller passes for a field
ArgValues(h, cls, f) ==
    CASE IsModel(f.type) -> {Ref(i) : i \in {j \in Live(h) : h[j].cls = f.type}}
      [] IsEnum(f.type) -> {"CompanyType.GmbH"}
      [] f.type = "int" -> {"1"}
      [] cls = "Town" -> StrVals
      [] OTHER -> {"'a'"}

RECURSIVE KwargsOver(_, _, _)
\* the keyword arguments naming exactly the fields of the sequence fs
KwargsOver(h, cls, fs) ==
    IF fs = <<>> THEN {<<>>}
    ELSE {<<<<Head(fs).name, v>>>> \o rest :
            v \in ArgValues(h, cls, Head(fs)), rest \in KwargsOver(h, cls, Tail(fs))}

\* the constructor calls of the caller: no argument, every declared field,
\* or every declared field but the last
NewKwargs(h, cls) ==
    UNION {KwargsOver(h, cls, SubSeq(Declared(cls), 1, n)) :
              n \in {0, Len(Declared(cls)) - 1, Len(Declared(cls))}}

\* the fields the caller assigns after construction: the first and the last
\* declared one
SetFields(cls) == {Declared(cls)[1], Declared(cls)[Len(Declared(cls))]}

\* the values the caller assigns to a field: well-typed ones, None, and one
\* of another type
SetValues(h, cls, f) ==
    ArgValues(h, cls, f) \cup {"None"} \cup (IF f.type = "str" THEN {"1"} ELSE {"'a'"})

Op(name, inst, err) == [op |-> name, inst |-> inst, err |-> err]

State ==
    [heap |-> heap, db |-> db, serial |-> serial, conn |-> conn, log |-> <<>>, err |-> "ok"]

\* no snapshot, no table, no row: before models.py is imported for the first time
Fresh ==
    [registry |-> NoClass,
     snapshot |-> [t \in Tables |-> NoFile],
     schema |-> [t \in Tables |-> NoTable],
     db |-> [t \in Tables |-> {}],
     serial |-> [t \in Tables |-> 1],
     conn |-> "idle", log |-> <<>>, err |-> "ok"]

RECURSIVE Import(_, _)
\* the class statements of models.py, one after the other
Import(w, classes) ==
    IF classes = <<>> THEN w
    ELSE Import(__init_subclass__(w, Head(classes), Declared(Head(classes)), <<>>), Tail(classes))

\* after import models
Imported == Import(Fresh, DeclOrder)

InBounds(st) == \A t \in Tables : st.serial[t] <= MaxRows + 1

Init ==
    /\ heap = [i \in Slots |-> Free]
    /\ db = [t \in Tables |-> {}]
    /\ serial = [t \in Tables |-> 1]
    /\ conn = "idle"
    /\ log = <<>>
    /\ last = Op("init", 0, "ok")
    /\ rsets = <<>>
    /\ ret = <<>>
    /\ registry = Imported.registry
    /\ snapshot = Imported.snapshot
    /\ schema = Imported.schema

\* the heap and the record of the call after a constructor call that gave
\* made, the new Instance going to slot
Constructed(made, slot) ==
    /\ heap' = IF made.err = "ok" THEN [heap EXCEPT ![slot] = made.inst] ELSE heap
    /\ last' = Op("new", IF made.err = "ok" THEN slot ELSE 0, made.err)

\* obj = cls(kwargs)
New(cls, kwargs) ==
    /\ HasFree(heap, cls)
    /\ Constructed(__init__(heap, cls, kwargs), LowestFree(heap, cls))
    /\ log' = <<>>
    /\ UNCHANGED <<db, serial, conn, rsets, ret, registry, snapshot, schema>>

\* obj.name = value
SetAttr(i, f, value) ==
    /\ IF SetRaises(heap, heap[i], f, value)
       THEN /\ last' = Op("set", i, "AssertionError")
            /\ UNCHANGED heap
       ELSE /\ last' = Op("set", i, "ok")
            /\ heap' = [heap EXCEPT ![i] = __set__(heap, heap[i], f, value)]
    /\ log' = <<>>
    /\ UNCHANGED <<db, serial, conn, rsets, ret, registry, snapshot, schema>>

\* the state after a save() of the Instance i that left st
Saved(i, st) ==
    /\ InBounds(st)
    /\ heap' = st.heap
    /\ db' = st.db
    /\ serial' = st.serial
    /\ conn' = st.conn
    /\ log' = st.log
    /\ last' = Op("save", i, st.err)
    /\ UNCHANGED <<rsets, ret, registry, snapshot, schema>>

\* obj.save()
Save(i) == Saved(i, save(State, i))

\* the state after a get that returned r
Got(r) ==
    /\ r.st.err # "NoSlot"
    /\ heap' = r.st.heap
    /\ log' = r.st.log
    /\ last' = Op("get", IF r.st.err = "ok" THEN Deref(r.val) ELSE 0, r.st.err)
    /\ conn' = r.st.conn
    /\ UNCHANGED <<db, serial, rsets, ret, registry, snapshot, schema>>

\* obj = cls.get(id)
Get(cls, id) == Got(get(State, cls, id))

\* the caller drops its reference to an Instance nothing else refers to
Drop(i) ==
    /\ \A j \in Live(heap) : \A k \in DOMAIN heap[j].values : heap[j].values[k] # Ref(i)
    /\ heap' = [heap EXCEPT ![i] = Free]
    /\ log' = <<>>
    /\ last' = Op("drop", i, "ok")
    /\ UNCHANGED <<db, serial, conn, rsets, ret, registry, snapshot, schema>>

Next ==
    \/ \E cls \in Classes : \E kwargs \in NewKwargs(heap, cls) : New(cls, kwargs)
    \/ \E i \in Live(heap) : \E f \in SetFields(heap[i].cls) :
          \E value \in SetValues(heap, heap[i].cls, f) : SetAttr(i, f, value)
    \/ \E i \in Live(heap) : Save(i)
    \/ \E cls \in Classes : \E id \in IdLits : Get(cls, id)
    \/ \E i \in Live(heap) : Drop(i)

Spec == Init /\ [][Next]_vars

----------------------------------------------------------------------------
(* Claims about the Instance lifecycle, checked under Spec *)

HasIdentity(inst) == Truthy(DictGet(inst.values, "id"))

\* the columns save writes: every non-virtual field other than id
WrittenFields(cls) == SelectSeq(Columns(cls), LAMBDA f : f.name # "id")

\* what is stored for a Python value of field f, given the heap h
Stored(h, f, v) ==
    IF v = "None" THEN "NULL"
    ELSE IF IsModel(f.type) THEN Param(DictGet(h[Deref(v)].values, "id"))
    ELSE IF IsEnum(f.type) THEN EnumValue(v)
    ELSE v

\* C1: save() on an Instance that has an identity and is dirty issues exactly
\* one UPDATE of its row whose SET list is exactly the non-virtual fields
\* other than id that have an explicitly-set value, and leaves dirty = false.
C1_SaveUpdatesSetFields ==
    \A i \in Live(heap) :
        (heap[i].dirty /\ HasIdentity(heap[i])) =>
            LET st == save(State, i)
                set == SelectSeq(WrittenFields(heap[i].cls),
                                 LAMBDA f : f.name \in DOMAIN heap[i].values)
                updates == SelectSeq(st.log, LAMBDA s : s.op = "UPDATE"
                                        /\ s.table = _table_name(heap[i].cls))
            IN  /\ st.err = "ok"
                /\ Len(updates) = 1
                /\ updates[1].columns = SeqMap(LAMBDA f : f.name, set)
                /\ ~st.heap[i].dirty

\* C5: save() on a dirty Instance without identity: if some non-virtual field
\* other than id has neither an explicitly-set value nor a default, the save
\* fails with the missing-value error, inserts nothing and leaves the Instance
\* as it was; otherwise a save that succeeds has issued, as its last
\* statement, the one INSERT into the Instance's table, whose columns are all
\* the non-virtual fields other than id, in order, each bound to the set value
\* if present and to the default if not; the generated id is in the value
\* map and dirty = false.  Without referenced Instances such a save succeeds.
C5_SaveInserts ==
    \A i \in Live(heap) :
        (heap[i].dirty /\ ~HasIdentity(heap[i])) =>
            LET self == heap[i]
                st == save(State, i)
                fs == WrittenFields(self.cls)
                unbound == {f \in Range(fs) :
                               f.name \notin DOMAIN self.values /\ "default" \notin DOMAIN f.options}
                bound(f) == IF f.name \in DOMAIN self.values
                            THEN self.values[f.name] ELSE f.options["default"]
                inserts == SelectSeq(st.log, LAMBDA s : s.op = "INSERT"
                                        /\ s.table = _table_name(self.cls))
            IN  IF unbound # {}
                THEN /\ st.err = "ValueError"
                     /\ inserts = <<>>
                     /\ st.heap[i] = self
                     /\ st.db[_table_name(self.cls)] = db[_table_name(self.cls)]
                ELSE /\ (\A f \in Range(fs) : bound(f) \notin Refs) => st.err = "ok"
                     /\ st.err = "ok" =>
                          /\ Len(inserts) = 1
                          /\ st.log[Len(st.log)] = inserts[1]
                          /\ inserts[1].columns = SeqMap(LAMBDA f : f.name, fs)
                          /\ Len(inserts[1].params) = Len(inserts[1].columns)
                          /\ \A n \in 1..Len(fs) :
                                inserts[1].params[n] = Stored(st.heap, fs[n], bound(fs[n]))
                          /\ st.heap[i].values = Put(self.values, "id", IntLit(serial[_table_name(self.cls)]))
                          /\ ~st.heap[i].dirty
                          /\ \E r \in st.db[_table_name(self.cls)] :
                                r["id"] = st.heap[i].values["id"]

\* a Customer was just inserted with the default of addr
C5_Witness ==
    /\ last.op = "save" /\ last.err = "ok"
    /\ heap[last.inst].cls = "Customer"
    /\ "addr" \notin DOMAIN heap[last.inst].values
    /\ Len(log) = 1 /\ log[1].op = "INSERT" /\ log[1].params[3] = "NULL"
    /\ HasIdentity(heap[last.inst])

\* C6: whenever save() issues the INSERT or UPDATE of an Instance, every
\* Instance it references through a record-reference field has an identity
\* and dirty = false, and the foreign-key parameter is that identity.
C6_ReferencedSavedFirst ==
    \A n \in 1..Len(log) :
        log[n].op \in {"INSERT", "UPDATE"} =>
            \A name \in DOMAIN log[n].refs :
                /\ Truthy(log[n].refs[name].id)
                /\ ~log[n].refs[name].dirty
                /\ \E c \in 1..Len(log[n].columns) :
                      log[n].columns[c] = name /\ log[n].params[c] = log[n].refs[name].id

\* the values an assignment is tried with
AnyValues(h) ==
    StrVals \cup {"1", "CompanyType.GmbH", "None"} \cup {Ref(j) : j \in Live(h)}

\* C7: an assignment of a value v different from the stored one is accepted
\* exactly when v is None or an instance of the field's type; a rejected one
\* fails with the validation error (and changes nothing).
C7_SetAcceptsNoneOrInstance ==
    \A i \in Live(heap) : \A f \in Range(_fields(heap[i].cls)) : \A v \in AnyValues(heap) :
        v # DictGet(heap[i].values, f.name) =>
            (~SetRaises(heap, heap[i], f, v)
                <=> (v = "None" \/ IsInstance(heap, v, f.type)))

RECURSIVE Perms(_)
\* the orderings of a set of keyword arguments
Perms(S) ==
    IF S = {} THEN {<<>>}
    ELSE UNION {{<<x>> \o p : p \in Perms(S \ {x})} : x \in S}

\* C9: the Instance a get(id) of an existing row returns has dirty = false,
\* initializing = false and identity id, and so has every referenced Instance
\* loaded with it; constructing it from the same values in any other order
\* gives the same Instance.
C9_GetReturnsClean ==
    (last.op = "get" /\ last.err = "ok") =>
        LET inst == heap[last.inst]
            kw == {<<k, inst.values[k]>> : k \in DOMAIN inst.values}
        IN  /\ ~inst.dirty
            /\ ~inst.initializing
            /\ log[1].op = "SELECT" /\ log[1].table = _table_name(inst.cls)
            /\ inst.values["id"] = log[1].params[1]
            /\ \A k \in DOMAIN inst.values :
                  inst.values[k] \in Refs =>
                      /\ ~heap[Deref(inst.values[k])].dirty
                      /\ ~heap[Deref(inst.values[k])].initializing
                      /\ HasIdentity(heap[Deref(inst.values[k])])
            /\ \A p \in Perms(kw) :
                  Hydrate(heap, inst.cls, p) = [inst |-> inst, err |-> "ok"]

\* a Customer with its Address was just loaded
C9_Witness ==
    /\ last.op = "get" /\ last.err = "ok"
    /\ heap[last.inst].cls = "Customer"
    /\ "addr" \in DOMAIN heap[last.inst].values
    /\ "type" \in DOMAIN heap[last.inst].values

\* C10: after a save() that succeeds the Instance has dirty = false, and a
\* save() called next issues no statement and changes neither the heap nor
\* the database.
C10_SecondSaveIsNoOp ==
    \A i \in Live(heap) :
        LET st == save(State, i)
            again == save([st EXCEPT !.log = <<>>], i)
        IN  st.err = "ok" =>
                /\ ~st.heap[i].dirty
                /\ again = [st EXCEPT !.log = <<>>]

\* a save has just inserted an Instance that references another
C10_Witness ==
    /\ last.op = "save" /\ last.err = "ok"
    /\ Len(log) >= 1 /\ log[Len(log)].op = "INSERT"
    /\ ~heap[last.inst].dirty
    /\ DOMAIN log[Len(log)].refs # {}

----------------------------------------------------------------------------
(* Expressions: the operand kinds are Expression, Field (a class attribute *)
(* such as Customer.name), edges (the JoinEdge list of a join node) and    *)
(* literal (any other Python value)                                        *)

Expression(operator, operands) ==
    [kind |-> "Expression", operator |-> operator, operands |-> operands]
ClassField(cls, name) == [kind |-> "Field", owner |-> cls, name |-> name]
Literal(v) == [kind |-> "literal", value |-> v]
Edges(es) == [kind |-> "edges", edges |-> es]
None == [kind |-> "None"]

\* Field.__eq__ and the other comparison operators of Field
Compare(operator, self, other) == Expression(operator, <<self, other>>)

\* Expression.__and__, Expression.__or__
__and__(self, other) == Expression("AND", <<self, other>>)
__or__(self, other) == Expression("OR", <<self, other>>)

\* the JoinEdge of one hop over the Field cf: (source, foreign,
\* source_column, foreign_column)
JoinEdge(cf) ==
    LET f == FieldOf(cf.owner, cf.name)
    IN  << _table_name(cf.owner), _table_name(f.type),
           IF ~IsVirtual(f) THEN f.name ELSE "id",
           IF ~IsVirtual(f) THEN "id" ELSE f.options["forward_name"] >>

\* Field.__getattr__(attr), for a Field whose type is a Model
Field__getattr__(cf, attr) ==
    Expression("join", << Edges(<<JoinEdge(cf)>>),
                          ClassField(FieldOf(cf.owner, cf.name).type, attr) >>)

\* an Expression.__getattr__ that starts the edge list anew
ExpressionGetattrReseeds(e, attr) ==
    Expression("join", << Edges(<<JoinEdge(e.operands[Len(e.operands)])>>),
                          ClassField(FieldOf(e.operands[Len(e.operands)].owner,
                                             e.operands[Len(e.operands)].name).type, attr) >>)

\* Expression.__getattr__(attr), for a join node that ends in such a Field
Expression__getattr__(e, attr) ==
    LET field == e.operands[Len(e.operands)]
    IN  Expression("join", << Edges(e.operands[1].edges \o <<JoinEdge(field)>>),
                              ClassField(FieldOf(field.owner, field.name).type, attr) >>)

\* Field.to_sql() without a value: the qualified column
ColumnRef(t, c) == t \o "." \o c
ColumnRefTable ==
    [t \in Tables |-> [c \in Range(FieldNames(ClassOfTable(t))) |-> ColumnRef(t, c)]]
QualifiedColumn(cf) == ColumnRefTable[_table_name(cf.owner)][cf.name]

\* a literal operand as a statement parameter: an Enum member gives its
\* value, an Instance its id
LiteralParam(h, v) ==
    IF v \in EnumMembers THEN EnumValue(v)
    ELSE IF v \in Refs THEN Param(DictGet(h[Deref(v)].values, "id"))
    ELSE Param(v)

RECURSIVE Expression_to_sql(_, _)
RECURSIVE OperandsToSql(_, _, _)

\* an Expression operand appended with the joins the loop has not met yet
WithExpressionDeduplicated(acc, inner) ==
    [operands |-> Append(acc.operands, inner.sql),
     literals |-> acc.literals \o inner.literals,
     joins |-> acc.joins \o SelectSeq(inner.joins, LAMBDA j : j \notin Range(acc.joins)),
     err |-> IF acc.err # "ok" THEN acc.err ELSE inner.err]

\* the fragment of an Expression operand appended, with its literals and joins
WithExpression(acc, inner) ==
    [operands |-> Append(acc.operands, inner.sql),
     literals |-> acc.literals \o inner.literals,
     joins |-> acc.joins \o inner.joins,
     err |-> IF acc.err # "ok" THEN acc.err ELSE inner.err]

\* a for loop that writes a literal into the fragment and puts it first in
\* the parameters
WithOperandInlined(h, acc, operand) ==
    IF operand.kind = "Expression" THEN WithExpression(acc, Expression_to_sql(h, operand))
    ELSE IF operand.kind = "Field"
    THEN [acc EXCEPT !.operands = Append(@, <<QualifiedColumn(operand)>>)]
    ELSE [acc EXCEPT !.operands = Append(@, <<LiteralParam(h, operand.value)>>),
                     !.literals = <<LiteralParam(h, operand.value)>> \o @]

\* one round of the for loop of Expression.to_sql
WithOperand(h, acc, operand) ==
    IF operand.kind = "Expression" THEN WithExpression(acc, Expression_to_sql(h, operand))
    ELSE IF operand.kind = "Field"
    THEN [acc EXCEPT !.operands = Append(@, <<QualifiedColumn(operand)>>)]
    ELSE [acc EXCEPT !.operands = Append(@, <<"%s">>),
                     !.literals = Append(@, LiteralParam(h, operand.value))]

\* the for loop of Expression.to_sql over the operands: the fragment of each
\* operand, and the literals and joins collected so far
OperandsToSql(h, operands, acc) ==
    IF operands = <<>> THEN acc
    ELSE OperandsToSql(h, Tail(operands), WithOperand(h, acc, Head(operands)))

\* the return statements of Expression.to_sql for the other operators
Returned(operator, n, r) ==
    IF n = 1
    THEN [sql |-> <<operator>> \o r.operands[1],
          literals |-> r.literals, joins |-> r.joins, err |-> r.err]
    ELSE IF n = 2
    THEN [sql |-> r.operands[1] \o <<operator>> \o r.operands[2],
          literals |-> r.literals, joins |-> r.joins, err |-> r.err]
    ELSE [sql |-> <<>>, literals |-> r.literals, joins |-> r.joins, err |-> "RuntimeError"]

\* Expression.to_sql(): the fragment as a sequence of tokens, the literals
\* and the joins
Expression_to_sql(h, e) ==
    IF e.operator = "join"
    THEN IF e.operands[Len(e.operands)].kind = "Expression"
         THEN [Expression_to_sql(h, e.operands[Len(e.operands)])
                  EXCEPT !.joins = e.operands[1].edges \o @]
         ELSE [sql |-> <<QualifiedColumn(e.operands[Len(e.operands)])>>, literals |-> <<>>,
               joins |-> e.operands[1].edges, err |-> "ok"]
    ELSE Returned(e.operator, Len(e.operands),
                  OperandsToSql(h, e.operands,
                     [operands |-> <<>>, literals |-> <<>>, joins |-> <<>>, err |-> "ok"]))

----------------------------------------------------------------------------
(* The database's side of SELECT and DELETE.  A fragment built by          *)
(* Expression.to_sql holds no parentheses, so the database reads it with   *)
(* its operator precedence: comparisons, then AND, then OR.                *)

RECURSIVE SplitOn(_, _)
\* the token sequence split at every token sep
SplitOn(tokens, sep) ==
    IF \A n \in 1..Len(tokens) : tokens[n] # sep THEN <<tokens>>
    ELSE LET n == CHOOSE m \in 1..Len(tokens) :
                      tokens[m] = sep /\ \A l \in 1..(m - 1) : tokens[l] # sep
         IN  <<SubSeq(tokens, 1, n - 1)>> \o SplitOn(SubSeq(tokens, n + 1, Len(tokens)), sep)

\* the driver's substitution of the parameters for the placeholders
Bind(tokens, params) ==
    [n \in 1..Len(tokens) |->
        IF tokens[n] = "%s"
        THEN params[Cardinality({m \in 1..n : tokens[m] = "%s"})]
        ELSE tokens[n]]

AllColumnRefs == UNION {{ColumnRefTable[t][c] : c \in DOMAIN ColumnRefTable[t]} : t \in Tables}
TableOfRef(tok) == CHOOSE t \in Tables : \E c \in DOMAIN ColumnRefTable[t] : ColumnRefTable[t][c] = tok
ColumnOfRef(tok) == CHOOSE c \in DOMAIN ColumnRefTable[TableOfRef(tok)] : ColumnRefTable[TableOfRef(tok)][c] = tok

\* the value of an operand token in the joined row env (table -> row)
OperandValue(env, tok) ==
    IF tok \in AllColumnRefs THEN env[TableOfRef(tok)][ColumnOfRef(tok)] ELSE tok

\* the order of the values of a column
Rank(v) ==
    IF v \in IntLits THEN IntOf(v)
    ELSE CASE v = "'a'" -> 1 [] v = "'b'" -> 2 [] OTHER -> 0

\* three-valued logic: "T", "F", and "U" for SQL's unknown
Comparison(operator, a, b) ==
    IF a = "NULL" \/ b = "NULL" THEN "U"
    ELSE LET holds == CASE operator = "=" -> a = b
                        [] operator = "!=" -> a # b
                        [] operator = "<" -> Rank(a) < Rank(b)
                        [] operator = ">" -> Rank(a) > Rank(b)
                        [] operator = "<=" -> Rank(a) <= Rank(b)
                        [] operator = ">=" -> Rank(a) >= Rank(b)
         IN  IF holds THEN "T" ELSE "F"

AllOf(vals) == IF "F" \in vals THEN "F" ELSE IF "U" \in vals THEN "U" ELSE "T"
AnyOf(vals) == IF "T" \in vals THEN "T" ELSE IF "U" \in vals THEN "U" ELSE "F"

ComparisonOperators == {"=", "!=", "<", ">", "<=", ">="}

\* a bound fragment the database accepts: comparisons of two operands joined
\* by AND and OR, over columns of the tables in the FROM clause
WellFormed(bound, tables) ==
    \A conj \in Range(SplitOn(bound, "OR")) :
        \A atom \in Range(SplitOn(conj, "AND")) :
            /\ Len(atom) = 3
            /\ atom[2] \in ComparisonOperators
            /\ \A n \in {1, 3} : atom[n] \in AllColumnRefs =>
                  /\ TableOfRef(atom[n]) \in tables
                  /\ ColumnOfRef(atom[n]) \in Range(ColumnNames(ClassOfTable(TableOfRef(atom[n]))))

\* the value of the bound WHERE fragment in the joined row env
Where(env, bound) ==
    AnyOf({AllOf({Comparison(atom[2], OperandValue(env, atom[1]), OperandValue(env, atom[3])) :
                     atom \in Range(SplitOn(conj, "AND"))}) :
              conj \in Range(SplitOn(bound, "OR"))})

RECURSIVE SortedIds(_)
\* the ids of a set of rows, ascending
SortedIds(rows) ==
    IF rows = {} THEN <<>>
    ELSE LET r == CHOOSE x \in rows : \A y \in rows : IntOf(x["id"]) <= IntOf(y["id"])
         IN  <<r>> \o SortedIds(rows \ {r})

RECURSIVE JoinRows(_, _, _)
\* FROM table JOIN foreign ON foreign.foreign_column = source.source_column ...:
\* the joined rows, each a function table -> row
JoinRows(d, envs, joins) ==
    IF joins = <<>> THEN envs
    ELSE LET source == Head(joins)[1]
             foreign == Head(joins)[2]
             source_column == Head(joins)[3]
             foreign_column == Head(joins)[4]
             matches(env) ==
                 SelectSeq(SortedIds(d[foreign]),
                           LAMBDA r : /\ env[source][source_column] # "NULL"
                                      /\ r[foreign_column] = env[source][source_column])
             extend(env) == SeqMap(LAMBDA r : (foreign :> r) @@ env, matches(env))
         IN  JoinRows(d, Flatten(SeqMap(extend, envs)), Tail(joins))

\* a table named twice, or a join from a table that is not in the FROM clause
JoinsRejected(table, joins) ==
    \E n \in 1..Len(joins) :
        \/ joins[n][2] \in {table} \cup {joins[m][2] : m \in 1..(n - 1)}
        \/ joins[n][1] \notin {table} \cup {joins[m][2] : m \in 1..(n - 1)}

\* the rows FROM table [JOIN ...] [WHERE ...] selects, or the error
Selected(d, table, joins, where, params) ==
    LET bound == Bind(IF where = <<>> THEN <<>> ELSE Tail(where), params)
        tables == {table} \cup {joins[n][2] : n \in 1..Len(joins)}
        from == SeqMap(LAMBDA r : (table :> r), SortedIds(d[table]))
    IN  IF JoinsRejected(table, joins) THEN [rows |-> <<>>, err |-> "ProgrammingError"]
        ELSE IF where # <<>> /\ ~WellFormed(bound, tables)
        THEN [rows |-> <<>>, err |-> "ProgrammingError"]
        ELSE [rows |-> SelectSeq(JoinRows(d, from, joins),
                                 LAMBDA env : where = <<>> \/ Where(env, bound) = "T"),
              err |-> "ok"]

\* some other row refers to one of the rows through a foreign key
Referenced(d, table, rows) ==
    \E cls \in Classes : \E f \in Range(foreign_keys(cls)) :
        /\ _table_name(f.type) = table
        /\ \E r \in d[_table_name(cls)] : \E x \in rows : r[f.name] = x["id"]

----------------------------------------------------------------------------
(* RecordSet *)

RecordSet(model_class, where, limit, order_by) ==
    [model_class |-> model_class, where |-> where, limit |-> limit, order_by |-> order_by]

\* Model.select(kwargs)
select(cls, where, limit, order_by) == RecordSet(cls, where, limit, order_by)

\* the return of _resolve_where for a compiled predicate
WhereClause(c) ==
    [where |-> <<"WHERE">> \o c.sql, joins |-> c.joins, literals |-> c.literals, err |-> c.err]

\* RecordSet._resolve_where(): the WHERE clause, the joins and the literals
_resolve_where(h, self) ==
    IF self.where = None
    THEN [where |-> <<>>, joins |-> <<>>, literals |-> <<>>, err |-> "ok"]
    ELSE WhereClause(Expression_to_sql(h, self.where))

\* a statement of a RecordSet: FROM table, the joins, the WHERE clause, the
\* ORDER BY and LIMIT clauses and the parameters
Query(op, table, r, order_by, limit) ==
    [op |-> op, table |-> table, joins |-> r.joins, where |-> r.where,
     order_by |-> order_by, limit |-> limit, params |-> r.literals]

\* the orders in which the database may return rows it was not told to sort:
\* id -> position
ScanOrders ==
    {o \in [1..MaxInt -> 1..MaxInt] : \A a, b \in 1..MaxInt : o[a] = o[b] => a = b}

\* the sequence s sorted by Key, equal keys keeping their order
SortBy(Key(_), s) ==
    [n \in 1..Len(s) |->
        s[CHOOSE i \in 1..Len(s) :
              Cardinality({j \in 1..Len(s) :
                              \/ Key(s[j]) < Key(s[i])
                              \/ Key(s[j]) = Key(s[i]) /\ j < i}) = n - 1]]

\* the order_by values of the model: None and "id DESC"
OrderBys == {"None", "id DESC"}

\* ORDER BY id DESC, or else the order of the scan
Ordered(rows, q, scan) ==
    IF Truthy(q.order_by)
    THEN SortBy(LAMBDA env : 0 - IntOf(env[q.table]["id"]), rows)
    ELSE SortBy(LAMBDA env : scan[IntOf(env[q.table]["id"])], rows)

\* LIMIT int(limit)
Limited(rows, q) ==
    IF Truthy(q.limit) THEN SubSeq(rows, 1, Min(IntOf(q.limit), Len(rows))) ELSE rows

\* ORDER BY and LIMIT applied to the selected rows.  A column named in ORDER
\* BY without its table is ambiguous once a joined table has a column of
\* that name.
Sorted(found, q, scan) ==
    IF found.err # "ok" THEN found
    ELSE IF Truthy(q.order_by) /\ q.joins # <<>>
    THEN [rows |-> <<>>, err |-> "ProgrammingError"]
    ELSE [rows |-> Limited(Ordered(found.rows, q, scan), q), err |-> "ok"]

\* the statement q added to the log
Sent(st, q) == [st EXCEPT !.log = Append(@, q)]

\* the cursor after the statement: the rows to fetch, or the error raised
Cursor(st, q, found) ==
    IF InFailedTransaction(st)
    THEN [st |-> Fail(Sent(st, q), "InFailedSqlTransaction"), rows |-> <<>>]
    ELSE IF found.err # "ok" THEN [st |-> Fail(Sent(st, q), found.err), rows |-> <<>>]
    ELSE [st |-> Sent(st, q), rows |-> found.rows]

\* cur.execute(sql, literals) of a SELECT
ExecSelect(st, q, scan) ==
    Cursor(st, q, Sorted(Selected(st.db, q.table, q.joins, q.where, q.params), q, scan))

\* cur.fetchone()[0] of SELECT COUNT
Fetchone(cur) ==
    [st |-> cur.st, val |-> IF cur.st.err = "ok" THEN IntLit(Len(cur.rows)) ELSE "None"]

\* __len__ once the WHERE clause is resolved
LenResolved(st, self, r) ==
    IF r.err # "ok" THEN [st |-> Raise(st, r.err), val |-> "None"]
    ELSE Fetchone(ExecSelect(st, Query("SELECT COUNT", _table_name(self.model_class), r,
                                       "None", "None"),
                             [n \in 1..MaxInt |-> n]))

\* RecordSet.__len__(): SELECT COUNT FROM table [JOIN ...] [WHERE ...]
__len__(st, self) == LenResolved(st, self, _resolve_where(st.heap, self))

RECURSIVE YieldLoop(_, _, _, _)
RECURSIVE Yield(_, _, _, _, _)

\* the loop of __iter__ over the fetched rows: model_class.get(row[0]) for
\* each.  The caller keeps none of the Instances, so each is loaded on an
\* empty heap and handed over by value.
YieldLoop(st, cls, rows, yielded) ==
    IF rows = <<>> \/ st.err # "ok" THEN [st |-> st, val |-> yielded]
    ELSE Yield(st, cls, rows, yielded,
               get([st EXCEPT !.heap = [i \in Slots |-> Free]], cls,
                   Head(rows)[_table_name(cls)]["id"]))

\* one round of that loop, r being what get returned
Yield(st, cls, rows, yielded, r) ==
    IF r.st.err # "ok" THEN [st |-> [r.st EXCEPT !.heap = st.heap], val |-> yielded]
    ELSE YieldLoop([r.st EXCEPT !.heap = st.heap], cls, Tail(rows),
                   Append(yielded, r.st.heap[Deref(r.val)]))

\* cur.fetchall() and the loop over it
Fetchall(cur, cls) ==
    IF cur.st.err # "ok" THEN [st |-> cur.st, val |-> <<>>]
    ELSE YieldLoop(cur.st, cls, cur.rows, <<>>)

\* __iter__ once the WHERE clause is resolved
IterResolved(st, self, r, scan) ==
    IF r.err # "ok" THEN [st |-> Raise(st, r.err), val |-> <<>>]
    ELSE Fetchall(ExecSelect(st, Query("SELECT", _table_name(self.model_class), r,
                                       self.order_by, self.limit), scan),
                  self.model_class)

\* RecordSet.__iter__(): SELECT table.id FROM table [JOIN ...] [WHERE ...]
\* [ORDER BY ...] [LIMIT ...], then a get per row
__iter__(st, self, scan) == IterResolved(st, self, _resolve_where(st.heap, self), scan)

\* the where of the RecordSet filter returns
NewWhere(self, where_expr) ==
    IF self.where = None THEN where_expr ELSE Expression("AND", <<self.where, where_expr>>)

\* a filter that narrows the receiver itself and returns it
filterInPlace(sets, k, where_expr) ==
    [sets |-> Append([sets EXCEPT ![k].where = NewWhere(sets[k], where_expr)],
                     [sets[k] EXCEPT !.where = NewWhere(sets[k], where_expr)]),
     err |-> "ok"]

\* RecordSet.filter(where_expr), called on the k-th of the RecordSets the
\* caller holds: the RecordSets it holds afterwards, the new one last
filter(sets, k, where_expr) ==
    IF where_expr.kind # "Expression" THEN [sets |-> sets, err |-> "AssertionError"]
    ELSE [sets |-> Append(sets, RecordSet(sets[k].model_class, NewWhere(sets[k], where_expr),
                                          sets[k].limit, sets[k].order_by)),
          err |-> "ok"]

\* the rows of the table among the selected rows
RowsOf(found, table) == {env[table] : env \in Range(found.rows)}

\* the table after the DELETE: the database deletes no row another row
\* refers to
Removed(st, table, found) ==
    IF found.err # "ok" THEN Fail(st, found.err)
    ELSE IF Referenced(st.db, table, RowsOf(found, table)) THEN Fail(st, "IntegrityError")
    ELSE [st EXCEPT !.db[table] = @ \ RowsOf(found, table)]

\* DELETE FROM table [JOIN ...] [WHERE ...]: the database has no JOIN in a
\* DELETE
ExecDelete(st, q) ==
    IF InFailedTransaction(st) THEN Fail(Sent(st, q), "InFailedSqlTransaction")
    ELSE IF q.joins # <<>> THEN Fail(Sent(st, q), "SyntaxError")
    ELSE Removed(Sent(st, q), q.table, Selected(st.db, q.table, <<>>, q.where, q.params))

\* delete once the WHERE clause is resolved
DeleteResolved(st, self, r) ==
    IF r.err # "ok" THEN Raise(st, r.err)
    ELSE ExecDelete(st, Query("DELETE", _table_name(self.model_class), r, "None", "None"))

\* RecordSet.delete()
delete(st, self) == DeleteResolved(st, self, _resolve_where(st.heap, self))

----------------------------------------------------------------------------
(* The caller of the RecordSets: it selects Customers, narrows, counts,    *)
(* iterates and deletes, on a database that earlier saves have filled      *)

\* the rows save() has written for Town(name='a') and for
\* Address(street='a', house_number=1, post_code='a', town=<that Town>)
TownRows == {[id |-> "1", name |-> "'a'"]}
AddressRows ==
    {[id |-> "1", street |-> "'a'", house_number |-> "1", post_code |-> "'a'", town |-> "1"]}

\* the row of the n-th Customer saved: Customer(name='a', type=GmbH, addr=<the
\* Address>), Customer(name='b', type=GmbH), Customer(name='a', addr=<the
\* Address>), and so on in turn
CustomerRow(n) ==
    [id |-> IntLit(n),
     name |-> IF n % 2 = 1 THEN "'a'" ELSE "'b'",
     type |-> IF n % 3 = 0 THEN "NULL" ELSE "1",
     addr |-> IF n % 2 = 1 THEN "1" ELSE "NULL"]

\* the databases the caller starts on: some of the Customers are deleted
Databases ==
    {[t \in Tables |->
         CASE t = "town" -> TownRows
           [] t = "address" -> AddressRows
           [] OTHER -> {CustomerRow(n) : n \in kept}] : kept \in SUBSET (1..MaxDbRows)}

\* the predicates the caller selects by
NameIs(v) == Compare("=", ClassField("Customer", "name"), Literal(v))
TypeIs(m) == Compare("=", ClassField("Customer", "type"), Literal(m))
StreetIs(v) == Compare("=", Field__getattr__(ClassField("Customer", "addr"), "street"), Literal(v))
SelectWheres ==
    {None, NameIs("'a'"), __or__(NameIs("'a'"), TypeIs("CompanyType.GmbH")), StreetIs("'a'")}

\* the arguments the caller passes to filter: two predicates and a value
\* that is no Expression
FilterArgs == {NameIs("'b'"), TypeIs("CompanyType.GmbH"), Literal("True")}

Limits == {"None", "1"}

\* the last operation on a RecordSet: its name, the RecordSet's position, the
\* outcome and the argument
RsOp(name, k, err, arg) == [op |-> name, inst |-> k, err |-> err, arg |-> arg]

InitRS ==
    /\ heap = [i \in Slots |-> Free]
    /\ db \in Databases
    /\ serial = [t \in Tables |-> IF t = "customer" THEN MaxDbRows + 1 ELSE 2]
    /\ conn = "idle"
    /\ log = <<>>
    /\ last = Op("init", 0, "ok")
    /\ rsets = <<>>
    /\ ret = <<>>
    /\ registry = Imported.registry
    /\ snapshot = Imported.snapshot
    /\ schema = Imported.schema

\* rs = Customer.select(where=..., limit=..., order_by=...)
Select(where, limit, order_by) ==
    /\ Len(rsets) < MaxSets
    /\ rsets' = Append(rsets, select("Customer", where, limit, order_by))
    /\ last' = RsOp("select", Len(rsets) + 1, "ok", where)
    /\ log' = <<>>
    /\ ret' = <<>>
    /\ UNCHANGED <<heap, db, serial, conn, registry, snapshot, schema>>

\* rs2 = rs.filter(where_expr)
Filter(k, where_expr) ==
    /\ Len(rsets) < MaxSets
    /\ LET r == filter(rsets, k, where_expr)
       IN  /\ rsets' = r.sets
           /\ last' = RsOp("filter", k, r.err, where_expr)
    /\ log' = <<>>
    /\ ret' = <<>>
    /\ UNCHANGED <<heap, db, serial, conn, registry, snapshot, schema>>

\* rs.delete()
Delete(k) ==
    LET st == delete(State, rsets[k])
    IN  /\ db' = st.db
        /\ conn' = st.conn
        /\ log' = st.log
        /\ last' = RsOp("delete", k, st.err, None)
        /\ ret' = <<>>
        /\ UNCHANGED <<heap, serial, rsets, registry, snapshot, schema>>

\* n = len(rs)
Count(k) ==
    LET r == __len__(State, rsets[k])
    IN  /\ conn' = r.st.conn
        /\ log' = r.st.log
        /\ last' = RsOp("len", k, r.st.err, None)
        /\ ret' = IF r.st.err = "ok" THEN <<r.val>> ELSE <<>>
        /\ UNCHANGED <<heap, db, serial, rsets, registry, snapshot, schema>>

\* for obj in rs: ...
Iterate(k, scan) ==
    LET r == __iter__(State, rsets[k], scan)
    IN  /\ conn' = r.st.conn
        /\ log' = r.st.log
        /\ last' = RsOp("iter", k, r.st.err, None)
        /\ ret' = r.val
        /\ UNCHANGED <<heap, db, serial, rsets, registry, snapshot, schema>>

\* the caller drops the RecordSet it made last
Forget ==
    /\ rsets # <<>>
    /\ rsets' = SubSeq(rsets, 1, Len(rsets) - 1)
    /\ last' = RsOp("forget", Len(rsets), "ok", None)
    /\ log' = <<>>
    /\ ret' = <<>>
    /\ UNCHANGED <<heap, db, serial, conn, registry, snapshot, schema>>

NextRS ==
    \/ \E where \in SelectWheres : \E limit \in Limits : \E order_by \in OrderBys :
          Select(where, limit, order_by)
    \/ \E k \in 1..Len(rsets) : \E where_expr \in FilterArgs : Filter(k, where_expr)
    \/ \E k \in 1..Len(rsets) : Delete(k)
    \/ \E k \in 1..Len(rsets) : Count(k)
    \/ \E k \in 1..Len(rsets) : \E scan \in ScanOrders : Iterate(k, scan)
    \/ Forget

SpecRS == InitRS /\ [][NextRS]_vars

----------------------------------------------------------------------------
(* Claims about RecordSets *)

\* the rows of its table a RecordSet's own predicate selects
Matching(d, self) ==
    LET r == _resolve_where(<<>>, self)
        t == _table_name(self.model_class)
    IN  RowsOf(Selected(d, t, r.joins, r.where, r.literals), t)

\* C2: for every RecordSet and every database content, count() returns
\* exactly the number of Instances that iterating the same RecordSet yields
\* in the same database state.
C2_CountAgreesWithIteration ==
    \A k \in 1..Len(rsets) : \A scan \in ScanOrders :
        LET n == __len__(State, rsets[k])
            it == __iter__(State, rsets[k], scan)
        IN  (n.st.err = "ok" /\ it.st.err = "ok") => n.val = IntLit(Len(it.val))

\* C3: rs.filter(p).delete() removes exactly the rows that satisfy both rs's
\* own predicate and p, and no other row; count(rs) afterwards equals
\* count(rs) before minus the number of rows that satisfied both.
C3_FilterDeleteRemovesBoth ==
    [][\A p \in FilterArgs :
          ( /\ last'.op = "delete"
            /\ last'.inst = 2
            /\ conn = "idle"
            /\ filter(<<rsets[1]>>, 1, p) = [sets |-> rsets, err |-> "ok"] ) =>
          LET rs == rsets[1]
              t == _table_name(rs.model_class)
              both == Matching(db, rs) \cap Matching(db, RecordSet(rs.model_class, p, "None", "None"))
          IN  /\ last'.err = "ok"
              /\ db' = [db EXCEPT ![t] = @ \ both]
              /\ Cardinality(Matching(db', rs)) = Cardinality(Matching(db, rs)) - Cardinality(both)
              /\ __len__([State EXCEPT !.db = db'], rs).val
                    = IntLit(IntOf(__len__(State, rs).val) - Cardinality(both))]_vars

\* C4: rs.filter(p) leaves the receiver rs unchanged and returns a new
\* RecordSet with the same record type, limit and ordering, whose predicate
\* is p when rs has no predicate and the node AND(rs's predicate, p) otherwise.
C4_FilterReturnsNewSet ==
    [][(last'.op = "filter" /\ last'.err = "ok") =>
          LET k == last'.inst
              p == last'.arg
              new == rsets'[Len(rsets')]
          IN  /\ Len(rsets') = Len(rsets) + 1
              /\ \A j \in 1..Len(rsets) : rsets'[j] = rsets[j]
              /\ new.model_class = rsets[k].model_class
              /\ new.limit = rsets[k].limit
              /\ new.order_by = rsets[k].order_by
              /\ new.where = IF rsets[k].where = None THEN p
                             ELSE [kind |-> "Expression", operator |-> "AND",
                                   operands |-> <<rsets[k].where, p>>]]_vars

\* a filter of a RecordSet that has a predicate, limit and ordering has
\* returned the AND node
C4_Witness ==
    /\ last.op = "filter" /\ last.err = "ok"
    /\ Len(rsets) = 2
    /\ rsets[1].where # None /\ rsets[1].limit = "1" /\ rsets[1].order_by = "id DESC"
    /\ rsets[2].where.operator = "AND"
    /\ rsets[2].where.operands = <<rsets[1].where, last.arg>>
    /\ rsets[2].limit = "1"

----------------------------------------------------------------------------
(* The developer: class statements run, bodies edited between runs of the  *)
(* program, db_state files lost, rows stored                               *)

\* the world __init_subclass__ works on
World ==
    [registry |-> registry, snapshot |-> snapshot, schema |-> schema, db |-> db,
     serial |-> serial, conn |-> conn, log |-> <<>>, err |-> "ok"]

\* the branch ensure_db_state takes for a class statement
Path(w, subclass, body) ==
    IF Collected(w.registry, subclass, body).err # "ok" THEN "refused"
    ELSE IF w.snapshot[_table_name(subclass)] = NoFile THEN "create"
    ELSE IF w.snapshot[_table_name(subclass)] = Corrupt THEN "unreadable"
    ELSE IF JsonLoad(w.snapshot[_table_name(subclass)])
            = get_state(Collected(w.registry, subclass, body).reg[subclass])
    THEN "same"
    ELSE "migrate"

Declaration(cls, path, err) ==
    [op |-> "class", cls |-> cls, path |-> path, err |-> err]

\* the class statements a process can run next: a class not yet declared in
\* it, whose body refers to declared classes only
Declarable(reg, cls, body) ==
    /\ reg[cls] = <<>>
    /\ \A f \in Range(body) : IsModel(f.type) => reg[f.type] # <<>>

InitSchema ==
    /\ heap = [i \in Slots |-> Free]
    /\ rsets = <<>>
    /\ ret = <<>>
    /\ registry = Fresh.registry
    /\ snapshot = Fresh.snapshot
    /\ schema = Fresh.schema
    /\ db = Fresh.db
    /\ serial = Fresh.serial
    /\ conn = Fresh.conn
    /\ log = <<>>
    /\ last = Op("init", 0, "ok")

\* the state after a class statement that left the world w
AfterClass(w, declaration) ==
    /\ registry' = w.registry
    /\ snapshot' = w.snapshot
    /\ schema' = w.schema
    /\ db' = w.db
    /\ serial' = w.serial
    /\ conn' = w.conn
    /\ log' = w.log
    /\ last' = [declaration EXCEPT !.err = w.err]
    /\ UNCHANGED <<heap, rsets, ret>>

\* class cls(Model): body
Declare(cls, body, order) ==
    /\ Declarable(registry, cls, body)
    /\ AfterClass(__init_subclass__(World, cls, body, order),
                 Declaration(cls, Path(World, cls, body), "ok"))

\* the process ends and the program is started again: no class is declared,
\* the connection is new
Restart ==
    /\ registry # NoClass
    /\ registry' = NoClass
    /\ conn' = "idle"
    /\ log' = <<>>
    /\ last' = Op("restart", 0, "ok")
    /\ UNCHANGED <<heap, rsets, ret, snapshot, schema, db, serial>>

\* the db_state file of a table is not there at the next start: a fresh
\* checkout, a cleaned directory, another working directory
LoseSnapshot(table) ==
    /\ registry = NoClass
    /\ snapshot[table] # NoFile
    /\ snapshot' = [snapshot EXCEPT ![table] = NoFile]
    /\ log' = <<>>
    /\ last' = Op("lost", 0, "ok")
    /\ UNCHANGED <<heap, rsets, ret, registry, schema, db, serial, conn>>

\* the row an INSERT of save() leaves in a table: the next id, a value in
\* each column of a primitive type, NULL in each column that has a foreign
\* key constraint
StoredRow(table) ==
    [c \in {schema[table].columns[n].name : n \in 1..Len(schema[table].columns)} |->
        IF c = "id" THEN IntLit(serial[table])
        ELSE IF \E k \in schema[table].fks : k.column = c THEN "NULL"
        ELSE IF (CHOOSE col \in Range(schema[table].columns) : col.name = c).type = "int"
        THEN "1"
        ELSE "'a'"]

\* the classes the program saves Instances of
StoredClasses == {"Town"}

\* an Instance of a declared class is saved for the first time
StoreRow(cls) ==
    /\ registry[cls] # <<>>
    /\ conn = "idle"
    /\ schema[_table_name(cls)] # NoTable
    /\ {f.name : f \in Range(StateFields(registry[cls]))}
         = {c.name : c \in Range(schema[_table_name(cls)].columns)}
    /\ serial[_table_name(cls)] <= MaxRows
    /\ db' = [db EXCEPT ![_table_name(cls)] = @ \cup {StoredRow(_table_name(cls))}]
    /\ serial' = [serial EXCEPT ![_table_name(cls)] = @ + 1]
    /\ log' = <<>>
    /\ last' = Op("stored", 0, "ok")
    /\ UNCHANGED <<heap, rsets, ret, registry, snapshot, schema, conn>>

NextSchema ==
    \/ \E cls \in Classes : \E body \in Bodies(cls) :
          \E order \in Orderings(ChangedBy(World, cls, body)) : Declare(cls, body, order)
    \/ Restart
    \/ \E table \in Tables : LoseSnapshot(table)
    \/ \E cls \in StoredClasses : StoreRow(cls)

SpecSchema == InitSchema /\ [][NextSchema]_vars

----------------------------------------------------------------------------
(* Schema synchronisation: what is checked *)

\* the state get_state derives for a class statement
Derived(cls, body) == get_state(Collected(registry, cls, body).reg[cls])

\* the document of a table's db_state file, loaded
Persisted(w, cls) == JsonLoad(w.snapshot[_table_name(cls)])
HasDocument(w, cls) == w.snapshot[_table_name(cls)] \notin {NoFile, Corrupt}

\* the instructions of a batch that name a column
About(batch, opname, column) ==
    {n \in 1..Len(batch) : batch[n].op = opname /\ batch[n].column = column}

\* the batch is what the difference of two states asks for: one DROP COLUMN
\* per name only in old, one ADD COLUMN per name only in new, followed by the
\* foreign key constraint of a name that has one, and nothing else
ExactBatch(batch, table, old_state, new_state) ==
    /\ \A n \in 1..Len(batch) :
          /\ batch[n].table = table
          /\ batch[n].op \in {"DROP COLUMN", "ADD COLUMN", "ADD CONSTRAINT"}
          /\ batch[n].op = "DROP COLUMN" =>
                batch[n].column \in (DOMAIN old_state.fields) \ (DOMAIN new_state.fields)
          /\ batch[n].op = "ADD COLUMN" =>
                /\ batch[n].column \in (DOMAIN new_state.fields) \ (DOMAIN old_state.fields)
                /\ batch[n].type = new_state.fields[batch[n].column].type
          /\ batch[n].op = "ADD CONSTRAINT" =>
                /\ n > 1
                /\ batch[n - 1].op = "ADD COLUMN"
                /\ batch[n - 1].column = batch[n].column
                /\ batch[n].column \in DOMAIN new_state.foreign_keys
                /\ batch[n].target = new_state.foreign_keys[batch[n].column]
    /\ \A name \in (DOMAIN old_state.fields) \ (DOMAIN new_state.fields) :
          Cardinality(About(batch, "DROP COLUMN", name)) = 1
    /\ \A name \in (DOMAIN new_state.fields) \ (DOMAIN old_state.fields) :
          /\ Cardinality(About(batch, "ADD COLUMN", name)) = 1
          /\ name \in DOMAIN new_state.foreign_keys =>
                Cardinality(About(batch, "ADD CONSTRAINT", name)) = 1

\* a migration pass that left the world w did what C11 says
MigratedExactly(w, cls, old_state, new_state) ==
    /\ Len(w.log) = 1
    /\ ExactBatch(w.log[1], _table_name(cls), old_state, new_state)
    /\ HasDocument(w, cls)
    /\ Persisted(w, cls) = new_state

\* C11: given a persisted snapshot and a freshly derived state that differ,
\* the migration batch contains exactly one DROP COLUMN per field name present
\* only in the snapshot and exactly one ADD COLUMN per field name present only
\* in the derived state (followed by that field's foreign-key constraint when
\* it is a foreign key), and no statement for any other field; afterwards the
\* persisted snapshot equals the derived state.
C11_MigrationBatchAndSnapshot ==
    \A cls \in Classes : \A body \in Bodies(cls) :
        (/\ Declarable(registry, cls, body)
         /\ conn = "idle"
         /\ Path(World, cls, body) = "migrate") =>
            \A order \in Orderings(ChangedBy(World, cls, body)) :
                MigratedExactly(__init_subclass__(World, cls, body, order), cls,
                                Persisted(World, cls), Derived(cls, body))

\* the world a newly started process finds after the pass that left w: the
\* classes declared before cls are declared again, nothing is logged yet
Again(w) == [w EXCEPT !.registry = registry, !.log = <<>>]

\* registering the declaration in the world w changes nothing
NoOpIn(w, cls, body) ==
    /\ Path(w, cls, body) = "same"
    /\ \A order \in Orderings(ChangedBy(w, cls, body)) :
          /\ __init_subclass__(w, cls, body, order).err = "ok"
          /\ __init_subclass__(w, cls, body, order).log = <<>>
          /\ __init_subclass__(w, cls, body, order).snapshot = w.snapshot
          /\ __init_subclass__(w, cls, body, order).schema = w.schema
          /\ __init_subclass__(w, cls, body, order).db = w.db

\* the pass that left w completed with the snapshot equal to the derived
\* state, and the same declaration again is a no-op
SteadyAfter(w, cls, body) ==
    w.err = "ok" =>
        /\ HasDocument(w, cls)
        /\ Persisted(w, cls) = get_state(w.registry[cls])
        /\ Persisted(w, cls) = Derived(cls, body)
        /\ NoOpIn(Again(w), cls, body)

\* C12: after any synchronization pass that completes (table creation or
\* migration), the persisted snapshot equals the freshly derived SchemaState,
\* so registering the same declaration again emits no statement and does not
\* rewrite the snapshot.
C12_CompletedPassIsSteady ==
    \A cls \in Classes : \A body \in Bodies(cls) :
        (/\ Declarable(registry, cls, body)
         /\ Path(World, cls, body) \in {"create", "migrate"}) =>
            \A order \in Orderings(ChangedBy(World, cls, body)) :
                SteadyAfter(__init_subclass__(World, cls, body, order), cls, body)

\* a migration has just completed and left the derived state in the snapshot
C12_Witness ==
    /\ last.op = "class"
    /\ last.path = "migrate"
    /\ last.err = "ok"
    /\ Persisted(World, last.cls) = get_state(registry[last.cls])

\* the pass that left w has the table of cls with the derived columns and
\* one constraint per foreign key, and the derived state in the snapshot
CreatedFrom(w, cls) ==
    /\ w.schema[_table_name(cls)] # NoTable
    /\ w.schema[_table_name(cls)].columns
         = SeqMap(LAMBDA f : Column(f.name, _sql_type(f)), StateFields(w.registry[cls]))
    /\ w.schema[_table_name(cls)].fks
         = {Constraint(f.name, _table_name(f.type)) : f \in Range(StateKeys(w.registry[cls]))}
    /\ HasDocument(w, cls)
    /\ Persisted(w, cls) = get_state(w.registry[cls])

\* what the database held before is still there in w: every table, its rows
\* and the constraints of the other tables
Kept(w, table) ==
    /\ schema[table] # NoTable => w.schema[table] # NoTable
    /\ db[table] \subseteq w.db[table]
    /\ \A t \in Tables \ {table} :
          schema[t] # NoTable => (w.schema[t] # NoTable /\ schema[t].fks \subseteq w.schema[t].fks)

\* C13: when no snapshot is persisted for a record type's table, the
\* synchronization pass creates the table from the derived non-virtual field
\* list, adds one foreign-key constraint per foreign key, and persists the
\* snapshot, without destroying an already existing table of that name or any
\* of its rows.
C13_CreateKeepsExistingTable ==
    \A cls \in Classes : \A body \in Bodies(cls) :
        (/\ Declarable(registry, cls, body)
         /\ conn = "idle"
         /\ Path(World, cls, body) = "create"
         /\ __init_subclass__(World, cls, body, <<>>).err = "ok") =>
            /\ CreatedFrom(__init_subclass__(World, cls, body, <<>>), cls)
            /\ Kept(__init_subclass__(World, cls, body, <<>>), _table_name(cls))

\* the fields of the name id a class has
IdFields(fields) == SelectSeq(fields, LAMBDA f : f.name = "id")

\* the id field __init_subclass__ sets
IsPrimaryKey(f) ==
    /\ ~IsVirtual(f)
    /\ f.type = "int"
    /\ DictGet(f.options, "required") = "True"
    /\ _sql_type(f) = "serial primary key"

\* C17: after any sequence of successful record-type declarations, every
\* registered record type has a field named id that is non-virtual, integer,
\* required and mapped to the auto-assigned primary-key column type; a
\* declaration that itself defines an attribute named id fails with a
\* configuration error.
C17_IdAlwaysPrimaryKey ==
    /\ \A cls \in Classes :
          registry[cls] # <<>> =>
              /\ Len(IdFields(registry[cls])) = 1
              /\ IsPrimaryKey(IdFields(registry[cls])[1])
    /\ \A cls \in Classes : \A body \in Bodies(cls) :
          (Declarable(registry, cls, body) /\ \E f \in Range(body) : f.name = "id") =>
              /\ __init_subclass__(World, cls, body, <<>>).err = "RuntimeError"
              /\ __init_subclass__(World, cls, body, <<>>).registry[cls] = <<>>

----------------------------------------------------------------------------
(* Schema synchronisation: the order of statements and snapshot *)

\* the errors with which cur.execute or conn.commit leave a pass
StatementErrors ==
    {"ProgrammingError", "IntegrityError", "InternalError", "InFailedSqlTransaction"}

\* the statements a pass has logged, executed and committed in the world w:
\* the DROP TABLE of drop() and the statements of create(), or the one batch
\* of migrate()
ExecutedAll(w, entries, path) ==
    IF path = "create"
    THEN Instructions(ExecDropTable(w, entries[1].table), entries[2])
    ELSE Instructions(w, entries[1])

\* the pass that led from the world before to the world after wrote the
\* snapshot only with all its statements in effect, and left it alone when a
\* statement failed; the batch of a migration is one cur.execute, of which
\* nothing is committed when it fails
SnapshotFollowsStatements(before, after, path) ==
    /\ after.snapshot # before.snapshot =>
          /\ after.err \notin StatementErrors
          /\ after.conn = "idle"
          /\ Len(after.log) = (IF path = "create" THEN 2 ELSE 1)
          /\ after.schema = ExecutedAll(before, after.log, path).schema
          /\ after.db = ExecutedAll(before, after.log, path).db
    /\ after.err \in StatementErrors => after.snapshot = before.snapshot
    /\ path = "migrate" =>
          /\ Len(after.log) = 1
          /\ after.err \in StatementErrors =>
                (after.schema = before.schema /\ after.db = before.db)

Redescribed(old_state, new_state) ==
    {name \in (DOMAIN old_state.fields) \cap (DOMAIN new_state.fields) :
        \/ old_state.fields[name] # new_state.fields[name]
        \/ (name \in DOMAIN old_state.foreign_keys) # (name \in DOMAIN new_state.foreign_keys)
        \/ /\ name \in DOMAIN old_state.foreign_keys
           /\ name \in DOMAIN new_state.foreign_keys
           /\ old_state.foreign_keys[name] # new_state.foreign_keys[name]}

\* no statement of the pass names one of the columns
NoStatementFor(w, names) ==
    \A n \in 1..Len(w.log) : \A k \in 1..Len(w.log[n]) : w.log[n][k].column \notin names

\* the pass that left w sent nothing for the fields, wrote the derived state
\* and made the same declaration a no-op
SnapshotOnly(w, cls, body, names) ==
    /\ NoStatementFor(w, names)
    /\ HasDocument(w, cls)
    /\ Persisted(w, cls) = Derived(cls, body)
    /\ NoOpIn(Again(w), cls, body)

\* C23: when the persisted snapshot and the derived state have the same field
\* names but some field's storage type, options or foreign-key target
\* differs, the synchronization pass emits no DROP, ADD or constraint
\* statement for that field and the snapshot is updated to the derived
\* state, so the following pass is a no-op.
C23_RedescribedFieldUpdatesSnapshot ==
    \A cls \in Classes : \A body \in Bodies(cls) :
        (/\ Declarable(registry, cls, body)
         /\ conn = "idle"
         /\ Path(World, cls, body) = "migrate"
         /\ DOMAIN Persisted(World, cls).fields = DOMAIN Derived(cls, body).fields
         /\ Redescribed(Persisted(World, cls), Derived(cls, body)) # {}) =>
            SnapshotOnly(__init_subclass__(World, cls, body, <<>>), cls, body,
                         Redescribed(Persisted(World, cls), Derived(cls, body)))

\* the classes declared in this process
DeclaredClasses(reg) == {cls \in Classes : reg[cls] # <<>>}

\* C24: declaring a further record type never changes the derived SchemaState
\* (non-virtual fields and foreign keys) of an already declared record type,
\* so deriving that type's schema again always yields the state that was
\* derived at its own declaration.
C24_DeclarationKeepsOtherStates ==
    \A cls \in Classes : \A body \in Bodies(cls) :
        Declarable(registry, cls, body) =>
            \A other \in DeclaredClasses(registry) :
                get_state(__init_subclass__(World, cls, body, <<>>).registry[other])
                    = get_state(registry[other])

----------------------------------------------------------------------------
(* A caller that assigns to the virtual fields: town.addresses = address   *)

\* the fields install_inverse gave a class
VirtualFields(cls) == SelectSeq(_fields(cls), IsVirtual)

\* the constructor calls: every declared field, with or without the virtual
\* fields after them
VirtualKwargs(h, cls) ==
    {declared \o virtual :
        declared \in KwargsOver(h, cls, Declared(cls)),
        virtual \in {<<>>} \cup KwargsOver(h, cls, VirtualFields(cls))}

NextVirtual ==
    \/ \E cls \in Classes : \E kwargs \in VirtualKwargs(heap, cls) : New(cls, kwargs)
    \/ \E i \in Live(heap) : \E f \in Range(VirtualFields(heap[i].cls)) :
          \E value \in ArgValues(heap, heap[i].cls, f) \cup {"None"} : SetAttr(i, f, value)
    \/ \E i \in Live(heap) : Save(i)
    \/ \E cls \in Classes : \E id \in IdLits : Get(cls, id)
    \/ \E i \in Live(heap) : Drop(i)

SpecVirtual == Init /\ [][NextVirtual]_vars

\* the names of the virtual fields of a table's class
VirtualNames(table) == {f.name : f \in Range(VirtualFields(ClassOfTable(table)))}

\* no statement of the log has a virtual field in its column list
NoVirtualColumn(statements) ==
    \A n \in 1..Len(statements) :
        Range(statements[n].columns) \cap VirtualNames(statements[n].table) = {}

\* the state of a class declared with an empty body
EmptyBodyState(cls) == get_state(Collected(NoClass, cls, <<>>).reg[cls])

\* the statements create() and a migration from the empty body send for a
\* class: CREATE TABLE with its columns, and one ADD COLUMN per field
SchemaStatements(cls) ==
    SelectSeq(CreateStatements(cls, registry[cls]), LAMBDA i : i.op = "CREATE TABLE")
    \o SeqMap(LAMBDA i : [table |-> i.table, columns |-> <<[name |-> i.column]>>],
              SelectSeq(MigrateInstructions(_table_name(cls),
                                            SelectSeq(FieldNames(cls),
                                                      LAMBDA name : name \in Changed(EmptyBodyState(cls),
                                                                                     get_state(registry[cls]))),
                                            EmptyBodyState(cls), get_state(registry[cls])),
                        LAMBDA i : i.op = "ADD COLUMN"))

NoVirtualInSchema(cls) ==
    /\ (DOMAIN get_state(registry[cls]).fields) \cap VirtualNames(_table_name(cls)) = {}
    /\ (DOMAIN get_state(registry[cls]).foreign_keys) \cap VirtualNames(_table_name(cls)) = {}
    /\ \A n \in 1..Len(SchemaStatements(cls)) :
          {c.name : c \in Range(SchemaStatements(cls)[n].columns)}
            \cap VirtualNames(_table_name(cls)) = {}
    /\ Len(SchemaStatements(cls)) = Len(Columns(cls))

\* C18: a virtual field never appears in the derived SchemaState, in a CREATE
\* TABLE or ADD COLUMN statement, in the point-load SELECT column list, or in
\* the column list of an INSERT or UPDATE issued by save(), even when a value
\* has been assigned to it on the Instance.
C18_VirtualFieldOwnsNoColumn ==
    /\ \A cls \in Classes : NoVirtualInSchema(cls)
    /\ \A i \in Live(heap) : NoVirtualColumn(save(State, i).log)
    /\ \A cls \in Classes : \A id \in IdLits : NoVirtualColumn(get(State, cls, id).st.log)
    /\ NoVirtualColumn(log)

\* an Instance with a value assigned to a virtual field has just been
\* inserted
C18_Witness ==
    /\ last.op = "save"
    /\ last.err = "ok"
    /\ (DOMAIN heap[last.inst].values) \cap VirtualNames(_table_name(heap[last.inst].cls)) # {}
    /\ \E n \in 1..Len(log) :
          log[n].op = "INSERT" /\ log[n].table = _table_name(heap[last.inst].cls)

\* the values of a primitive or enumerated type
ValuesOf(type) ==
    CASE type = "str" -> StrVals
      [] type = "int" -> IntVals
      [] IsEnum(type) -> EnumMembers
      [] OTHER -> {}

\* the fields of primitive or enumerated type of all classes
ValueFields ==
    UNION {{f \in Range(_fields(cls)) : f.type \in {"str", "int"} \/ IsEnum(f.type)} :
              cls \in Classes}

\* C19: for every field of primitive (str, int) or enumerated type and every
\* value v of that type, and for v = None, from_sql(to_sql(v)) equals v.
C19_StorageRoundTrip ==
    \A f \in ValueFields : \A v \in ValuesOf(f.type) \cup {"None"} :
        /\ to_sql(State, f, v).st = State
        /\ from_sql(State, f, to_sql(State, f, v).val) = [st |-> State, val |-> v]

\* a Customer was saved, forgotten and loaded again: its name and its type
\* went through to_sql, the row and from_sql
C19_Witness ==
    /\ last.op = "get" /\ last.err = "ok"
    /\ heap[last.inst].cls = "Customer"
    /\ heap[last.inst].values["type"] = "CompanyType.GmbH"
    /\ \E r \in db["customer"] :
          /\ r["id"] = heap[last.inst].values["id"]
          /\ r["type"] = "1"
          /\ r["name"] = heap[last.inst].values["name"]

\* the Instance Model.__init__ starts from
Constructing(cls) ==
    [cls |-> cls, values |-> EmptyMap, dirty |-> FALSE, initializing |-> TRUE]

\* the keyword arguments get passes to the constructor for a row
GetKwargs(st, cls, row) == FromSqlLoop(st, Columns(cls), row, <<>>)

\* dirty is false after each of the first n assignments of the construction
CleanAtEveryStep(h, cls, kwargs) ==
    \A n \in 0..Len(kwargs) :
        ~InitLoop(h, Constructing(cls), SubSeq(kwargs, 1, n)).inst.dirty

\* C20: during construction-from-storage (initializing=true) no set changes
\* dirty, even on the first write of a field: dirty stays false at every step
\* of the construction.
C20_LoadNeverDirty ==
    \A cls \in Classes : \A row \in db[_table_name(cls)] :
        (conn = "idle" /\ GetKwargs(State, cls, row).st.err = "ok") =>
            CleanAtEveryStep(GetKwargs(State, cls, row).st.heap, cls,
                             GetKwargs(State, cls, row).kwargs)

----------------------------------------------------------------------------
(* The caller that writes predicates: it starts at a class attribute,      *)
(* traverses relations, compares, combines with & and |, and compiles.     *)
(* ret holds the value the last expression gave, log the result of the     *)
(* last to_sql().                                                          *)

MaxHops == 2
MaxDepth == 3

\* the class attributes the caller starts from
Roots ==
    {ClassField("Customer", "name"), ClassField("Customer", "type"),
     ClassField("Customer", "addr"), ClassField("Town", "addresses")}

\* the attributes it asks of a Field or of a join node
Attrs == {"name", "town", "customers", "addr", "street"}

\* the operators and right operands of its comparisons
CallerOperators == {"!="}
CallerOperands ==
    {Literal("'a'"), Literal("CompanyType.GmbH"), ClassField("Customer", "name")}

\* the other operand of its & and |: a predicate, a Field, a literal
Others ==
    {Compare("=", ClassField("Customer", "type"), Literal("CompanyType.GmbH")),
     Compare("<", Field__getattr__(ClassField("Customer", "addr"), "house_number"), Literal("1")),
     ClassField("Customer", "type"), Literal("True")}

\* the hops of a Field or join node
Hops(v) == IF v.kind = "Expression" /\ v.operator = "join" THEN Len(v.operands[1].edges) ELSE 0

RECURSIVE Depth(_)
\* the nesting of comparison, AND and OR nodes
Depth(v) ==
    IF v.kind # "Expression" \/ v.operator = "join" THEN 0
    ELSE 1 + (IF Len(v.operands) = 2 /\ Depth(v.operands[2]) > Depth(v.operands[1])
              THEN Depth(v.operands[2]) ELSE Depth(v.operands[1]))

\* the Field an attribute traversal goes on from: the Field itself, or the
\* last operand of a join node
LastField(v) == IF v.kind = "Field" THEN v ELSE v.operands[Len(v.operands)]

\* v.attr for a Field or a join node v.  Field.__getattr__ raises
\* AttributeError for a Field of no Model type.  Expression.__getattr__
\* builds the message of its AttributeError from self._type, which no
\* Expression has, so that it is entered again and again: RecursionError.
\* getattr(type, attr) raises AttributeError when the type has no such
\* attribute.
GetAttrError(v, attr) ==
    IF ~IsModel(FieldOf(LastField(v).owner, LastField(v).name).type)
    THEN IF v.kind = "Field" THEN "AttributeError" ELSE "RecursionError"
    ELSE IF attr \notin Range(FieldNames(FieldOf(LastField(v).owner, LastField(v).name).type))
    THEN "AttributeError"
    ELSE "ok"

__getattr__(v, attr) ==
    IF v.kind = "Field" THEN Field__getattr__(v, attr) ELSE Expression__getattr__(v, attr)

\* left & right and left | right as Python dispatches them: the __and__ or
\* __or__ of the left operand's type, which only Expression has; else, when
\* the types differ, the __rand__ or __ror__ of the right operand's type,
\* which only Field has and which raises RuntimeError; else TypeError
BitOp(operator, left, right) ==
    IF left.kind = "Expression"
    THEN [val |-> Expression(operator, <<left, right>>), err |-> "ok"]
    ELSE IF right.kind = "Field" /\ left.kind # "Field"
    THEN [val |-> None, err |-> "RuntimeError"]
    ELSE [val |-> None, err |-> "TypeError"]

\* the last operation of this caller, with the kinds of the operands of an
\* & or |
ExprOp(name, err, kinds) == [op |-> name, inst |-> 0, err |-> err, kinds |-> kinds]

InitExpr ==
    /\ heap = [i \in Slots |-> Free]
    /\ db = [t \in Tables |-> {}]
    /\ serial = [t \in Tables |-> 1]
    /\ conn = "idle"
    /\ log = <<>>
    /\ last = ExprOp("init", "ok", <<>>)
    /\ rsets = <<>>
    /\ ret = <<>>
    /\ registry = Imported.registry
    /\ snapshot = Imported.snapshot
    /\ schema = Imported.schema

\* Customer.name: the Field of the class
Attr(field) ==
    /\ ret' = <<field>>
    /\ log' = <<>>
    /\ last' = ExprOp("attr", "ok", <<>>)
    /\ UNCHANGED <<heap, db, serial, conn, rsets, registry, snapshot, schema>>

\* v.attr on the value at hand
GetAttr(attr) ==
    /\ ret # <<>>
    /\ ret[1].kind = "Field" \/ (ret[1].kind = "Expression" /\ ret[1].operator = "join")
    /\ Hops(ret[1]) < MaxHops
    /\ last' = ExprOp("getattr", GetAttrError(ret[1], attr), <<>>)
    /\ ret' = IF GetAttrError(ret[1], attr) = "ok" THEN <<__getattr__(ret[1], attr)>> ELSE ret
    /\ log' = <<>>
    /\ UNCHANGED <<heap, db, serial, conn, rsets, registry, snapshot, schema>>

\* v != other
Comparing(operator, other) ==
    /\ ret # <<>>
    /\ ret[1].kind \in {"Field", "Expression"}
    /\ Depth(ret[1]) = 0
    /\ ret' = <<Compare(operator, ret[1], other)>>
    /\ log' = <<>>
    /\ last' = ExprOp("compare", "ok", <<>>)
    /\ UNCHANGED <<heap, db, serial, conn, rsets, registry, snapshot, schema>>

\* left & right, left | right, the value at hand being one of the two
Combined(operator, left, right) ==
    /\ Depth(left) < MaxDepth
    /\ Depth(right) < MaxDepth
    /\ ret' = IF BitOp(operator, left, right).err = "ok"
              THEN <<BitOp(operator, left, right).val>> ELSE ret
    /\ log' = <<>>
    /\ last' = ExprOp(operator, BitOp(operator, left, right).err, <<left.kind, right.kind>>)
    /\ UNCHANGED <<heap, db, serial, conn, rsets, registry, snapshot, schema>>

Combine(operator, other, side) ==
    /\ ret # <<>>
    /\ IF side = "left" THEN Combined(operator, ret[1], other)
       ELSE Combined(operator, other, ret[1])

\* e.to_sql()
ToSql ==
    /\ ret # <<>>
    /\ ret[1].kind = "Expression"
    /\ log' = <<Expression_to_sql(heap, ret[1])>>
    /\ last' = ExprOp("to_sql", Expression_to_sql(heap, ret[1]).err, <<>>)
    /\ UNCHANGED <<heap, db, serial, conn, rsets, ret, registry, snapshot, schema>>

NextExpr ==
    \/ \E field \in Roots : Attr(field)
    \/ \E attr \in Attrs : GetAttr(attr)
    \/ \E operator \in CallerOperators : \E other \in CallerOperands : Comparing(operator, other)
    \/ \E operator \in {"AND", "OR"} : \E other \in Others : \E side \in {"left", "right"} :
          Combine(operator, other, side)
    \/ ToSql

SpecExpr == InitExpr /\ [][NextExpr]_vars

----------------------------------------------------------------------------
(* Claims about Expressions, checked under SpecExpr *)

RECURSIVE Leaves(_)
\* the operands of the comparisons of a tree, from left to right: Fields,
\* join nodes and literals
Leaves(v) ==
    IF v.kind # "Expression" \/ v.operator = "join" THEN <<v>>
    ELSE Flatten(SeqMap(Leaves, v.operands))

\* the literals among them, as the parameters they are bound as
LiteralsOf(h, v) ==
    SeqMap(LAMBDA l : LiteralParam(h, l.value),
           SelectSeq(Leaves(v), LAMBDA l : l.kind = "literal"))

\* what stands in the fragment for a leaf
LeafToken(l) ==
    IF l.kind = "literal" THEN "%s"
    ELSE ColumnRef(_table_name(LastField(l).owner), LastField(l).name)

SqlOperators == ComparisonOperators \cup {"AND", "OR"}

\* the tokens of a fragment that are no operators
OperandTokens(sql) == SelectSeq(sql, LAMBDA tok : tok \notin SqlOperators)

\* the compiled form r of the tree v has one placeholder per literal, in the
\* order of the literals, a qualified column per Field, and nothing else
Parameterized(h, v, r) ==
    /\ r.err = "ok"
    /\ Cardinality({n \in 1..Len(r.sql) : r.sql[n] = "%s"}) = Len(r.literals)
    /\ r.literals = LiteralsOf(h, v)
    /\ OperandTokens(r.sql) = SeqMap(LeafToken, Leaves(v))
    /\ \A n \in 1..Len(r.sql) : r.sql[n] \in SqlOperators \cup {"%s"} \cup AllColumnRefs
    /\ \A n \in 1..Len(r.sql) :
          r.sql[n] = "%s" =>
              Bind(r.sql, r.literals)[n]
                = LiteralsOf(h, v)[Cardinality({m \in 1..n : r.sql[m] = "%s"})]

\* C14: for every Expression tree of comparison and AND/OR nodes, compilation
\* yields a fragment whose number of placeholders equals the length of the
\* parameter list, with the i-th placeholder (left to right) bound to the
\* i-th literal met in left-to-right traversal; FieldSpec operands compile to
\* table-qualified column references and no literal value appears in the
\* fragment text.
C14_PlaceholdersMatchLiterals ==
    (ret # <<>> /\ Depth(ret[1]) > 0) =>
        Parameterized(heap, ret[1], Expression_to_sql(heap, ret[1]))

\* (Customer.name != 'a') & (Customer.type == CompanyType.GmbH) has just been
\* compiled to customer.name != %s AND customer.type = %s with ['a', 1]
C14_Witness ==
    /\ last.op = "to_sql"
    /\ ret = << __and__(Compare("!=", ClassField("Customer", "name"), Literal("'a'")),
                        Compare("=", ClassField("Customer", "type"), Literal("CompanyType.GmbH"))) >>
    /\ log[1].sql = <<"customer.name", "!=", "%s", "AND", "customer.type", "=", "%s">>
    /\ log[1].literals = <<"'a'", "1">>

\* the edge of one hop over the field f of the class owner, as the claim
\* states it: (this table, referenced table, this column, id), mirrored to
\* (this table, referencing table, id, forward column) for a virtual field
HopEdge(owner, f) ==
    IF "virtual" \in DOMAIN f.options
    THEN << _table_name(owner), _table_name(f.type), "id", f.options["forward_name"] >>
    ELSE << _table_name(owner), _table_name(f.type), f.name, "id" >>

\* the edges chain: each one starts at the table the one before leads to
Chained(edges) == \A n \in 2..Len(edges) : edges[n][1] = edges[n - 1][2]

\* the join node made by v.attr carries the edges of v, then the edge of the
\* hop over the last Field of v, and ends in the Field attr of that Field's
\* type
Traversed(v, attr, made) ==
    /\ made.kind = "Expression"
    /\ made.operator = "join"
    /\ Len(made.operands) = 2
    /\ Len(made.operands[1].edges) = Hops(v) + 1
    /\ (v.kind = "Expression" => SubSeq(made.operands[1].edges, 1, Hops(v)) = v.operands[1].edges)
    /\ made.operands[1].edges[Hops(v) + 1]
         = HopEdge(LastField(v).owner, FieldOf(LastField(v).owner, LastField(v).name))
    /\ made.operands[1].edges[1][1]
         = (IF v.kind = "Field" THEN _table_name(v.owner) ELSE v.operands[1].edges[1][1])
    /\ Chained(made.operands[1].edges)
    /\ made.operands[2] = ClassField(FieldOf(LastField(v).owner, LastField(v).name).type, attr)

\* C15: a traversal of n foreign-key hops starting at a field of record type
\* R yields a join node carrying exactly n JoinEdges in hop order, the first
\* with source table R and each next edge's source table equal to the previous
\* edge's target table; a forward hop is (this column -> id) and a virtual hop
\* is the mirrored edge (id -> forward column).
C15_TraversalCarriesHops ==
    /\ \A attr \in Attrs :
          (/\ ret # <<>>
           /\ ret[1].kind = "Field" \/ (ret[1].kind = "Expression" /\ ret[1].operator = "join")
           /\ GetAttrError(ret[1], attr) = "ok") =>
              Traversed(ret[1], attr, __getattr__(ret[1], attr))
    /\ (ret # <<>> /\ ret[1].kind = "Expression" /\ ret[1].operator = "join") =>
          /\ Chained(ret[1].operands[1].edges)
          /\ Len(ret[1].operands[1].edges) >= 1

\* Customer.addr.town.name has just been built: two forward edges from
\* customer
C15_Witness ==
    /\ last.op = "getattr"
    /\ last.err = "ok"
    /\ ret = << Expression("join",
                   << Edges(<< <<"customer", "address", "addr", "id">>,
                               <<"address", "town", "town", "id">> >>),
                      ClassField("Town", "name") >>) >>

\* the operand is no Expression: a Field or any other value
NoExpression(v) == v.kind # "Expression"

\* C16: applying the bitwise-and or bitwise-or operator to two operands
\* neither of which is an Expression, at least one of them being a FieldSpec
\* (as left or as right operand), fails immediately with the explicit usage
\* error that tells the caller to parenthesize; it never yields an
\* Expression, a boolean, or a different kind of error.
C16_BitwiseMisuseIsUsageError ==
    \A operator \in {"AND", "OR"} : \A other \in Others :
        (/\ ret # <<>>
         /\ NoExpression(ret[1])
         /\ NoExpression(other)
         /\ ret[1].kind = "Field" \/ other.kind = "Field") =>
            /\ BitOp(operator, ret[1], other).err = "RuntimeError"
            /\ BitOp(operator, other, ret[1]).err = "RuntimeError"

\* the join list of one operand of a node: that of its compiled form for an
\* Expression, none for a Field or a literal
OperandJoins(h, operand) ==
    IF operand.kind = "Expression" THEN Expression_to_sql(h, operand).joins ELSE <<>>

\* the edges of the traversals among the leaves of a tree, from left to
\* right, each as often as it was traversed
LeafEdges(v) ==
    Flatten(SeqMap(LAMBDA l : IF l.kind = "Expression" THEN l.operands[1].edges ELSE <<>>,
                   Leaves(v)))

RECURSIVE JoinsInOrder(_, _)
\* the join list of the node v, and of every node below it, is the
\* concatenation of its operands' join lists
JoinsInOrder(h, v) ==
    IF v.kind # "Expression" \/ v.operator = "join" THEN TRUE
    ELSE /\ Expression_to_sql(h, v).joins
              = Flatten(SeqMap(LAMBDA o : OperandJoins(h, o), v.operands))
         /\ Expression_to_sql(h, v).joins = LeafEdges(v)
         /\ \A n \in 1..Len(v.operands) : JoinsInOrder(h, v.operands[n])

\* C25: compiling a comparison, AND or OR node returns as its join list the
\* concatenation, in left-to-right operand order, of its operands' join
\* lists with no edge removed or merged, so a relation path traversed twice
\* in one predicate appears twice in the join list.
C25_JoinsConcatenated ==
    (ret # <<>> /\ Depth(ret[1]) > 0) => JoinsInOrder(heap, ret[1])

\* (Customer.addr.street != 'a') & (Customer.addr.house_number < 1) has just
\* been compiled: the edge from customer to address is there twice
C25_Witness ==
    /\ last.op = "to_sql" /\ last.err = "ok"
    /\ ret[1].operator = "AND"
    /\ ret[1].operands[1]
         = Compare("!=", Field__getattr__(ClassField("Customer", "addr"), "street"), Literal("'a'"))
    /\ log[1].joins = << <<"customer", "address", "addr", "id">>,
                         <<"customer", "address", "addr", "id">> >>

----------------------------------------------------------------------------
(* The meaning of a compiled predicate, checked under SpecRS *)

\* the value of an operand of a comparison in the joined row env: the column
\* of a Field, the column a traversal ends in, or the literal as it is bound
LeafValue(h, env, l) ==
    IF l.kind = "literal" THEN LiteralParam(h, l.value)
    ELSE env[_table_name(LastField(l).owner)][LastField(l).name]

RECURSIVE TreeValue(_, _, _)
\* the value of the Expression tree itself in the joined row env: an AND
\* node is the conjunction of its two operands, an OR node their
\* disjunction, whatever node they are operands of
TreeValue(h, env, v) ==
    IF v.operator = "AND"
    THEN AllOf({TreeValue(h, env, v.operands[1]), TreeValue(h, env, v.operands[2])})
    ELSE IF v.operator = "OR"
    THEN AnyOf({TreeValue(h, env, v.operands[1]), TreeValue(h, env, v.operands[2])})
    ELSE Comparison(v.operator, LeafValue(h, env, v.operands[1]), LeafValue(h, env, v.operands[2]))

\* the joined rows the clause r of the RecordSet self ranges over
JoinedRows(d, self, r) ==
    JoinRows(d, SeqMap(LAMBDA row : (_table_name(self.model_class) :> row),
                       SortedIds(d[_table_name(self.model_class)])),
             r.joins)

\* the database selects with the clause r the joined rows on which the tree
\* of self is true
SelectsByTree(d, self, r) ==
    Selected(d, _table_name(self.model_class), r.joins, r.where, r.literals).err = "ok" =>
        Range(Selected(d, _table_name(self.model_class), r.joins, r.where, r.literals).rows)
            = {env \in Range(JoinedRows(d, self, r)) : TreeValue(<<>>, env, self.where) = "T"}

\* C26: the compiled where-fragment, read with SQL operator precedence (AND
\* binds tighter than OR), selects exactly the rows on which the Expression
\* tree itself evaluates to true, for every tree that nests AND and OR nodes
\* in either order; in particular an AND node whose operand is an OR node
\* compiles to a fragment that still means (x OR y) AND z.
C26_FragmentMeansTree ==
    \A k \in 1..Len(rsets) :
        rsets[k].where # None =>
            SelectsByTree(db, rsets[k], _resolve_where(<<>>, rsets[k]))

----------------------------------------------------------------------------
(* A caller whose post codes may be too long for the column: the INSERT of *)
(* an Address can fail after the Town it refers to has been saved          *)

\* the values the caller passes for a field: for post_code also a str of
\* six characters
CascadeValues(h, cls, f) ==
    IF f.name = "post_code" THEN {"'a'", LongStr} ELSE ArgValues(h, cls, f) \ {"'b'"}

RECURSIVE CascadeKwargsOver(_, _, _)
CascadeKwargsOver(h, cls, fs) ==
    IF fs = <<>> THEN {<<>>}
    ELSE {<<<<Head(fs).name, v>>>> \o rest :
            v \in CascadeValues(h, cls, Head(fs)), rest \in CascadeKwargsOver(h, cls, Tail(fs))}

\* the constructor calls: every declared field
CascadeKwargs(h, cls) == CascadeKwargsOver(h, cls, Declared(cls))

\* the fields the caller assigns after construction
CascadeFields(cls) ==
    {f \in Range(Declared(cls)) : f.name = "post_code" \/ IsModel(f.type)}

NextCascade ==
    \/ \E cls \in Classes : \E kwargs \in CascadeKwargs(heap, cls) : New(cls, kwargs)
    \/ \E i \in Live(heap) : \E f \in CascadeFields(heap[i].cls) :
          \E value \in CascadeValues(heap, heap[i].cls, f) : SetAttr(i, f, value)
    \/ \E i \in Live(heap) : Save(i)
    \/ \E cls \in Classes : \E id \in IdLits : Get(cls, id)
    \/ \E i \in Live(heap) : Drop(i)

SpecCascade == Init /\ [][NextCascade]_vars

\* the Instances other than i that the call save(i), which left st, has given
\* an identity
SavedBy(h, st, i) ==
    {j \in Live(h) \ {i} : HasIdentity(st.heap[j]) /\ ~HasIdentity(h[j])}

\* the row of Instance j is in the database d
HasRow(d, inst) ==
    \E r \in d[_table_name(inst.cls)] : r["id"] = DictGet(inst.values, "id")

\* what a failed save(i) that left st has left behind
PartialWrites(h, d, st, i) ==
    /\ \A j \in SavedBy(h, st, i) :
          /\ HasRow(st.db, st.heap[j])
          /\ ~st.heap[j].dirty
    /\ st.db[_table_name(h[i].cls)] = d[_table_name(h[i].cls)]
    /\ st.heap[i] = h[i]
    /\ DictGet(h[i].values, "id") = "None"
    /\ h[i].dirty

\* C21: if a cascading save fails after some referenced Instance has already
\* been saved, the referenced row stays committed and the referenced Instance
\* keeps its identity and dirty = false, while no row is written for the
\* owner and the owner keeps id = None and dirty = true.
C21_FailedCascadeKeepsPartialWrites ==
    \A i \in Live(heap) :
        (save(State, i).err # "ok" /\ SavedBy(heap, save(State, i), i) # {}) =>
            PartialWrites(heap, db, save(State, i), i)

\* the save of a Customer failed at the INSERT of its Address, after the
\* Town of the Address had been inserted
C21_Witness ==
    /\ last.op = "save" /\ last.err = "DataError"
    /\ heap[last.inst].cls = "Customer"
    /\ \E t \in Live(heap) :
          /\ heap[t].cls = "Town"
          /\ HasIdentity(heap[t]) /\ ~heap[t].dirty
          /\ HasRow(db, heap[t])
    /\ Len(log) = 2 /\ log[1].table = "town" /\ log[2].table = "address"
    /\ db["address"] = {} /\ db["customer"] = {}
    /\ heap[last.inst].dirty /\ ~HasIdentity(heap[last.inst])

----------------------------------------------------------------------------
(* save() call by call.  A program declares class Capital(Town) with a     *)
(* field that refers to an Address; an Address may then refer to a Capital *)
(* that refers back to it.  ret holds the stack of the save() calls in     *)
(* progress, the innermost last; each frame is the Instance, where the     *)
(* call stands, and the fields, columns and values of its INSERT loop.     *)

\* the interpreter's recursion limit, counted in calls of save
MaxStack == 4

\* class Capital(Town): seat = Field(Address, default=None)
SubclassBody(cls) == << Field("seat", "Address", [default |-> "None"]) >>

AllClasses == Classes \cup Subclasses
AllTables == {_table_name(c) : c \in AllClasses}

\* the heap slot of the Instances of a class: a Town and a Capital take the
\* same one
SlotOf(cls) ==
    CASE cls \in {"Town", "Capital"} -> 1
      [] cls = "Address" -> 2
      [] cls = "Customer" -> 3

InitReentry ==
    /\ heap = [i \in Slots |-> Free]
    /\ db = [t \in AllTables |-> {}]
    /\ serial = [t \in AllTables |-> 1]
    /\ conn = "idle"
    /\ log = <<>>
    /\ last = Op("init", 0, "ok")
    /\ rsets = <<>>
    /\ ret = <<>>
    /\ registry = [c \in AllClasses |-> IF c \in Classes THEN Imported.registry[c] ELSE <<>>]
    /\ snapshot = [t \in AllTables |-> IF t \in Tables THEN Imported.snapshot[t] ELSE NoFile]
    /\ schema = [t \in AllTables |-> IF t \in Tables THEN Imported.schema[t] ELSE NoTable]

\* class Capital(Town): ...
DeclareSubclass(cls) ==
    /\ ret = <<>>
    /\ registry[cls] = <<>>
    /\ registry[Base(cls)] # <<>>
    /\ AfterClass(__init_subclass__(World, cls, SubclassBody(cls), <<>>),
                 Declaration(cls, Path(World, cls, SubclassBody(cls)), "ok"))

\* the classes the program makes Instances of: the ones a cycle of
\* references can run through
Cyclic == {"Town", "Capital", "Address"}

\* cls() without arguments: the loop over kwargs has nothing to do, and no
\* declared field is required
Bare(cls) == [cls |-> cls, values |-> EmptyMap, dirty |-> FALSE, initializing |-> FALSE]

\* obj = cls()
Create(cls) ==
    /\ ret = <<>>
    /\ registry[cls] # <<>>
    /\ heap[SlotOf(cls)] = Free
    /\ heap' = [heap EXCEPT ![SlotOf(cls)] = Bare(cls)]
    /\ log' = <<>>
    /\ last' = Op("new", SlotOf(cls), "ok")
    /\ UNCHANGED <<db, serial, conn, rsets, ret, registry, snapshot, schema>>

\* the fields the caller assigns: the columns other than id, and for a
\* subclass the descriptors it inherits from its base class, which are not
\* in its _fields
Assignable(reg, cls) ==
    {f \in Range(reg[cls]) : ~IsVirtual(f) /\ f.name # "id"}
    \cup (IF cls \in Subclasses
          THEN {f \in Range(reg[Base(cls)]) : ~IsVirtual(f) /\ f.name # "id"}
          ELSE {})

\* the values it assigns: one of the field's type, for a reference field
\* each live Instance of the type or of a subclass of it
ValuesFor(h, f) ==
    CASE IsModel(f.type) -> {Ref(j) : j \in {k \in Live(h) : issubclass(h[k].cls, f.type)}}
      [] IsEnum(f.type) -> {"CompanyType.GmbH"}
      [] f.type = "int" -> {"1"}
      [] OTHER -> {"'a'", LongStr}

\* obj.name = value, between two calls
Assign(i, f, value) ==
    /\ ret = <<>>
    /\ SetAttr(i, f, value)

\* the frame of a call of save that has just been entered
Frame(i) == [self |-> i, pc |-> "enter", fields |-> <<>>, columns |-> <<>>, values |-> <<>>]

\* what the calls in progress work on
Machine ==
    [heap |-> heap, db |-> db, serial |-> serial, conn |-> conn, log |-> log,
     registry |-> registry, stack |-> ret, err |-> "ok"]

\* an exception: no save catches it, every call in progress is left
Unwound(m, e) == [m EXCEPT !.stack = <<>>, !.err = e]

\* the innermost call returns; in Field.to_sql its caller reads value.id
\* and goes on with its loop
Return(m) ==
    IF Len(m.stack) = 1 THEN [m EXCEPT !.stack = <<>>]
    ELSE [m EXCEPT !.stack =
             [k \in 1..(Len(m.stack) - 1) |->
                 IF k < Len(m.stack) - 1 THEN m.stack[k]
                 ELSE [m.stack[k] EXCEPT
                          !.pc = "loop",
                          !.values = Append(@, Param(DictGet(
                                        m.heap[m.stack[Len(m.stack)].self].values, "id")))]]]

\* the row of the INSERT of the frame fr with the generated id
InsertedRow(fr, id) ==
    [c \in Range(fr.columns) \cup {"id"} |->
        IF c = "id" THEN id
        ELSE fr.values[CHOOSE n \in 1..Len(fr.columns) : fr.columns[n] = c]]

\* the database's answer to the INSERT of the frame fr for the class cls: a
\* str longer than its varchar(n) column, or a reference to a row its
\* target table does not hold
Refusal(m, fr, cls) ==
    IF \E n \in 1..Len(fr.columns) : \E f \in Range(m.registry[cls]) :
          /\ f.name = fr.columns[n]
          /\ f.type = "str"
          /\ fr.values[n] # "NULL"
          /\ StrLen(fr.values[n]) > VarcharLength(f)
    THEN "DataError"
    ELSE IF \E n \in 1..Len(fr.columns) : \E f \in Range(m.registry[cls]) :
          /\ f.name = fr.columns[n]
          /\ IsModel(f.type)
          /\ fr.values[n] # "NULL"
          /\ ~\E r \in m.db[_table_name(f.type)] : r["id"] = fr.values[n]
    THEN "IntegrityError"
    ELSE "ok"

\* the end of the INSERT branch for the frame fr of an Instance of cls:
\* cur.execute, self._values["id"] = cur.fetchone()[0], conn.commit(),
\* self._dirty = False, return
Insert(m, fr, cls) ==
    IF InFailedTransaction(m)
    THEN Unwound([m EXCEPT !.log = Append(@, Stmt("INSERT", _table_name(cls), fr.columns, fr.values, EmptyMap))],
                 "InFailedSqlTransaction")
    ELSE IF Refusal(m, fr, cls) # "ok"
    THEN Unwound([m EXCEPT !.log = Append(@, Stmt("INSERT", _table_name(cls), fr.columns, fr.values, EmptyMap)),
                           !.serial[_table_name(cls)] = @ + 1,
                           !.conn = "aborted"],
                 Refusal(m, fr, cls))
    ELSE Return([m EXCEPT
                    !.log = Append(@, Stmt("INSERT", _table_name(cls), fr.columns, fr.values, EmptyMap)),
                    !.serial[_table_name(cls)] = @ + 1,
                    !.db[_table_name(cls)] = @ \cup {InsertedRow(fr, IntLit(m.serial[_table_name(cls)]))},
                    !.heap[fr.self].values = Put(@, "id", IntLit(m.serial[_table_name(cls)])),
                    !.heap[fr.self].dirty = FALSE])

\* value.save() in Field.to_sql: one more call on the stack, or the
\* interpreter's RecursionError
Called(m, j) ==
    IF Len(m.stack) >= MaxStack THEN Unwound(m, "RecursionError")
    ELSE [m EXCEPT !.stack = Append([@ EXCEPT ![Len(@)].pc = "await"], Frame(j))]

\* the innermost frame with one more value bound
Bound(m, sql) == [m EXCEPT !.stack[Len(m.stack)].values = Append(@, sql)]

RECURSIVE Loop(_)
RECURSIVE ToSqlStep(_, _, _)

\* Field.to_sql(value) for the innermost frame
ToSqlStep(m, v, value) ==
    IF value = "None" THEN Loop(Bound(m, "NULL"))
    ELSE IF v.type = "str" THEN Loop(Bound(m, value))
    ELSE IF IsEnum(v.type) THEN Loop(Bound(m, EnumValue(value)))
    ELSE IF IsModel(v.type)
    THEN IF ~IsInstance(m.heap, value, v.type) THEN Unwound(m, "AssertionError")
         ELSE Called(m, Deref(value))
    ELSE IF v.type = "int" THEN Loop(Bound(m, value))
    ELSE Unwound(m, "TypeError")

\* the for loop of the INSERT branch from where the innermost frame stands,
\* up to its next call of save, its raise, or its INSERT and return
Loop(m) ==
    LET fr == m.stack[Len(m.stack)]
        self == m.heap[fr.self]
    IN  IF fr.fields = <<>> THEN Insert(m, fr, self.cls)
        ELSE LET v == Head(fr.fields)
                 next == [m EXCEPT !.stack[Len(m.stack)].fields = Tail(@)]
                 named == [next EXCEPT !.stack[Len(m.stack)].columns = Append(@, v.name)]
             IN  IF v.name = "id" \/ IsVirtual(v) THEN Loop(next)
                 ELSE IF v.name \in DOMAIN self.values
                 THEN ToSqlStep(named, v, self.values[v.name])
                 ELSE IF "default" \in DOMAIN v.options
                 THEN ToSqlStep(named, v, v.options["default"])
                 ELSE Unwound(m, "ValueError")

\* the UPDATE branch: the comprehension calls _options("virtual") for the
\* first key that has a value; with no such key the SET list is empty
UpdateBranch(m, self) ==
    IF \E f \in Range(m.registry[self.cls]) : f.name # "id" /\ f.name \in DOMAIN self.values
    THEN Unwound(m, "TypeError")
    ELSE Unwound([m EXCEPT !.log = Append(@, Stmt("UPDATE", _table_name(self.cls), <<>>, <<>>, EmptyMap)),
                           !.conn = "aborted"],
                 "SyntaxError")

\* the call that has just been entered: the two tests of save, then one of
\* its branches
Entered(m, self) ==
    IF ~self.dirty THEN Return(m)
    ELSE IF Truthy(DictGet(self.values, "id")) THEN UpdateBranch(m, self)
    ELSE Loop([m EXCEPT !.stack[Len(m.stack)].pc = "loop",
                        !.stack[Len(m.stack)].fields = m.registry[self.cls]])

\* the innermost call runs up to its next call of save, or to its end
Run(m) ==
    IF m.stack[Len(m.stack)].pc = "enter"
    THEN Entered(m, m.heap[m.stack[Len(m.stack)].self])
    ELSE Loop(m)

\* obj.save() is called
CallSave(i) ==
    /\ ret = <<>>
    /\ \A t \in AllTables : serial[t] <= MaxInt
    /\ ret' = <<Frame(i)>>
    /\ log' = <<>>
    /\ last' = Op("call", i, "ok")
    /\ UNCHANGED <<heap, db, serial, conn, rsets, registry, snapshot, schema>>

\* the state after the innermost call ran and left m
Stepped(m) ==
    /\ heap' = m.heap
    /\ db' = m.db
    /\ serial' = m.serial
    /\ conn' = m.conn
    /\ log' = m.log
    /\ ret' = m.stack
    /\ last' = IF m.stack = <<>> THEN Op("save", ret[1].self, m.err) ELSE last
    /\ UNCHANGED <<rsets, registry, snapshot, schema>>

Step ==
    /\ ret # <<>>
    /\ Stepped(Run(Machine))

NextReentry ==
    \/ \E cls \in Subclasses : DeclareSubclass(cls)
    \/ \E cls \in Cyclic : Create(cls)
    \/ \E i \in Live(heap) : \E f \in Assignable(registry, heap[i].cls) :
          \E value \in ValuesFor(heap, f) : Assign(i, f, value)
    \/ \E i \in Live(heap) : CallSave(i)
    \/ Step

SpecReentry == InitReentry /\ [][NextReentry]_vars

====
